---------------------------- MODULE Spec2Model ----------------------------
(***************************************************************************)
(* Model of the ungive/update self-update engine: version numbers,        *)
(* sentinel files, the working-directory layout, the manager's            *)
(* apply_latest(), the updater's update() pipeline, the verifying         *)
(* http_downloader and the exclusive lock file.                           *)
(*                                                                         *)
(* Strings are sequences of one-character strings, so that parsing and    *)
(* formatting are computed the way the code computes them.                *)
(***************************************************************************)
EXTENDS Integers, Sequences, FiniteSets, TLC

(***************************************************************************)
(* Bounds of the model.                                                    *)
(***************************************************************************)
\* largest component of a version number
MaxComp == 1
\* largest number of components of a version number
MaxVerLen == 1
\* largest number of staged version directories in the working directory
MaxDirs == 1
\* largest number of content operations, and of post-update operations
MaxOps == 1
\* largest number of verifiers added to a downloader
MaxVerifiers == 2
\* largest number of version directories that latest_available_update scans
MaxScanDirs == 3

\* largest number of version directories when apply_latest is called again
MaxStaged == 2

\* largest length of a text that is parsed as a version, and of a filename
\* that is searched for a version
MaxText == 4

(***************************************************************************)
(* Characters and strings.                                                 *)
(***************************************************************************)
Digits == <<"0", "1", "2", "3", "4", "5", "6", "7", "8", "9">>

IsDigit(c) == \E d \in 1..10 : Digits[d] = c

DigitVal(c) == (CHOOSE d \in 1..10 : Digits[d] = c) - 1

\* value std::string::npos of a failed search (positions are 1-based here)
npos == 0

\* std::string::find(c, i): first position >= i holding c, or npos
FindChar(s, c, i) ==
    IF \E k \in i..Len(s) : s[k] = c
    THEN CHOOSE k \in i..Len(s) : s[k] = c /\ \A j \in i..(k - 1) : s[j] # c
    ELSE npos

\* std::string::find(prefix, 0): first position where prefix occurs, or npos
FindStr(s, prefix) ==
    LET occurs(p) == /\ p + Len(prefix) - 1 <= Len(s)
                     /\ \A j \in 1..Len(prefix) : s[p + j - 1] = prefix[j]
    IN  IF \E p \in 1..(Len(s) + 1) : occurs(p)
        THEN CHOOSE p \in 1..(Len(s) + 1) :
                 occurs(p) /\ \A q \in 1..(p - 1) : ~occurs(q)
        ELSE npos

\* operator<< of an int into an ostringstream (non-negative values)
RECURSIVE IntToStr(_)
IntToStr(n) ==
    IF n < 10 THEN <<Digits[n + 1]>>
    ELSE IntToStr(n \div 10) \o <<Digits[(n % 10) + 1]>>

(***************************************************************************)
(* version_number                                                          *)
(***************************************************************************)
\* result of a from_string() that threw, of an empty optional<version_number>
NoVersion == <<>>

\* the inner loop of from_string: n *= 10; n += c - '0'
RECURSIVE DigitsValue(_, _, _)
DigitsValue(piece, j, acc) ==
    IF j > Len(piece) THEN acc
    ELSE DigitsValue(piece, j + 1, acc * 10 + DigitVal(piece[j]))

\* the loop of version_number::from_string from position i on
RECURSIVE ParseComponents(_, _)
ParseComponents(version, i) ==
    LET k == FindChar(version, ".", i)
        end == IF k = npos THEN Len(version) + 1 ELSE k
        piece == IF i >= end THEN <<>> ELSE SubSeq(version, i, end - 1)
        n == DigitsValue(piece, 1, 0)
    IN  IF \E j \in 1..Len(piece) : ~IsDigit(piece[j]) THEN NoVersion
        ELSE IF k = npos THEN <<n>>
        ELSE LET rest == ParseComponents(version, k + 1)
             IN  IF rest = NoVersion THEN NoVersion ELSE <<n>> \o rest

\* version_number::from_string(version, prefix); NoVersion when it throws
from_string(version, prefix) ==
    IF FindStr(version, prefix) = npos THEN NoVersion
    ELSE ParseComponents(version, Len(prefix) + 1)

\* version_number::string()
RECURSIVE string(_)
string(v) ==
    IF Len(v) = 0 THEN <<>>
    ELSE IF Len(v) = 1 THEN IntToStr(v[1])
    ELSE IntToStr(v[1]) \o <<".">> \o string(Tail(v))

Min(a, b) == IF a < b THEN a ELSE b

\* a comparison that stops at the end of the shorter version
VLessCommonPart(lhs, rhs) ==
    LET n == Min(Len(lhs), Len(rhs))
        differ == {i \in 1..n : lhs[i] # rhs[i]}
    IN  IF differ # {}
        THEN LET i == CHOOSE i \in differ : \A j \in differ : i <= j
             IN  lhs[i] < rhs[i]
        ELSE FALSE

\* operator<(version_number, version_number)
VLess(lhs, rhs) ==
    LET n == Min(Len(lhs), Len(rhs))
        differ == {i \in 1..n : lhs[i] # rhs[i]}
        is_left == Len(lhs) > Len(rhs)
        rest == IF is_left THEN lhs ELSE rhs
        nonzero == {i \in (n + 1)..Len(rest) : rest[i] # 0}
    IN  IF differ # {}
        THEN LET i == CHOOSE i \in differ : \A j \in differ : i <= j
             IN  lhs[i] < rhs[i]
        ELSE IF nonzero # {}
        THEN LET i == CHOOSE i \in nonzero : \A j \in nonzero : i <= j
             IN  IF rest[i] < 0 THEN is_left ELSE ~is_left
        ELSE FALSE

\* operator==(version_number, version_number)
VEq(lhs, rhs) == ~VLess(lhs, rhs) /\ ~VLess(rhs, lhs)

\* operator>(version_number, version_number)
VGreater(lhs, rhs) == VLess(rhs, lhs)

RECURSIVE SeqsUpTo(_, _)
SeqsUpTo(S, n) ==
    IF n = 0 THEN {<<>>}
    ELSE LET shorter == SeqsUpTo(S, n - 1)
         IN  shorter \cup {Append(s, x) : s \in shorter, x \in S}

\* the version numbers of the model
Versions == SeqsUpTo(0..MaxComp, MaxVerLen) \ {<<>>}

(***************************************************************************)
(* Files and directories.                                                  *)
(***************************************************************************)
\* a path that names no file
NoFile == <<"NOFILE">>

LF == "LF"
CR == "CR"

\* DEFAULT_LATEST_DIRECTORY
CurrentName == <<"c", "u", "r", "r", "e", "n", "t">>

\* names of the payload files of a release and of the current directory
PayloadNames == {"app", "notes"}

NoFiles == [f \in PayloadNames |-> NoFile]

\* a directory that does not exist
Absent == [exists |-> FALSE, sentinel |-> NoFile, files |-> NoFiles]

\* an existing directory without entries
EmptyDir == [exists |-> TRUE, sentinel |-> NoFile, files |-> NoFiles]

\* names of the children of the working directory
VerNames == {string(v) : v \in Versions}

DirNames == VerNames \cup {CurrentName}

(***************************************************************************)
(* internal::sentinel                                                      *)
(***************************************************************************)
VersionKey == <<"v", "e", "r", "s", "i", "o", "n">>

\* sentinel::write(): the text written into the sentinel file
SentinelText(v) == VersionKey \o <<"=">> \o string(v)

\* std::getline over the content: the lines between line feeds
RECURSIVE Lines(_)
Lines(content) ==
    IF Len(content) = 0 THEN <<>>
    ELSE LET k == FindChar(content, LF, 1)
         IN  IF k = npos THEN <<content>>
             ELSE <<SubSeq(content, 1, k - 1)>>
                      \o Lines(SubSeq(content, k + 1, Len(content)))

\* the loop of sentinel::decode over the lines: NoVersion when from_string
\* throws, otherwise the last version read (NoVersion when there is none)
RECURSIVE DecodeLines(_, _)
DecodeLines(lines, version) ==
    IF Len(lines) = 0 THEN version
    ELSE LET line == Head(lines)
             index == FindChar(line, "=", 1)
         IN  IF index = npos THEN DecodeLines(Tail(lines), version)
             ELSE IF SubSeq(line, 1, index - 1) = VersionKey
             THEN LET x == SubSeq(line, index + 1, Len(line))
                      parsed == from_string(x, <<>>)
                  IN  IF parsed = NoVersion THEN NoVersion
                      ELSE DecodeLines(Tail(lines), parsed)
             ELSE DecodeLines(Tail(lines), version)

\* sentinel::decode(); NoVersion when it throws
Decode(content) == DecodeLines(Lines(content), NoVersion)

\* sentinel::read() on a directory followed by version(); NoVersion when
\* read() returns false
SentinelRead(dir) ==
    IF ~dir.exists \/ dir.sentinel = NoFile THEN NoVersion
    ELSE Decode(dir.sentinel)

\* the constructor sentinel(location) creates the directory when missing
SentinelCtor(w, name) ==
    IF w[name].exists THEN w ELSE [w EXCEPT ![name] = EmptyDir]

(***************************************************************************)
(* manager::latest_available_update                                        *)
(***************************************************************************)
NoUpdate == [has |-> FALSE, version |-> NoVersion, name |-> <<>>]

RECURSIVE Perms(_)
Perms(S) ==
    IF S = {} THEN {<<>>}
    ELSE UNION {{<<x>> \o p : p \in Perms(S \ {x})} : x \in S}

\* the children a directory_iterator yields, in the order of the listing
RECURSIVE Enumerate(_, _)
Enumerate(w, order) ==
    IF Len(order) = 0 THEN <<>>
    ELSE IF w[Head(order)].exists
    THEN <<Head(order)>> \o Enumerate(w, Tail(order))
    ELSE Enumerate(w, Tail(order))

\* a scan that keeps the first valid directory it meets, whatever follows
RECURSIVE ScanEntriesKeepsFirst(_, _, _)
ScanEntriesKeepsFirst(w, order, result) ==
    IF Len(order) = 0 THEN result
    ELSE LET filename == Head(order)
             directory_version == from_string(filename, <<>>)
             sentinel_version == SentinelRead(w[filename])
         IN  IF directory_version = NoVersion
             THEN ScanEntriesKeepsFirst(w, Tail(order), result)
             ELSE IF sentinel_version = NoVersion
             THEN ScanEntriesKeepsFirst(w, Tail(order), result)
             ELSE IF ~VEq(directory_version, sentinel_version)
             THEN ScanEntriesKeepsFirst(w, Tail(order), result)
             ELSE IF result.has /\ VEq(directory_version, result.version)
             THEN NoUpdate
             ELSE IF ~result.has
             THEN ScanEntriesKeepsFirst(w, Tail(order),
                      [has |-> TRUE, version |-> directory_version,
                       name |-> filename])
             ELSE ScanEntriesKeepsFirst(w, Tail(order), result)

\* a scan that does not compare the sentinel with the name of the directory
RECURSIVE ScanEntriesAnySentinel(_, _, _)
ScanEntriesAnySentinel(w, order, result) ==
    IF Len(order) = 0 THEN result
    ELSE LET filename == Head(order)
             directory_version == from_string(filename, <<>>)
             sentinel_version == SentinelRead(w[filename])
         IN  IF directory_version = NoVersion
             THEN ScanEntriesAnySentinel(w, Tail(order), result)
             ELSE IF sentinel_version = NoVersion
             THEN ScanEntriesAnySentinel(w, Tail(order), result)
             ELSE IF result.has /\ VEq(directory_version, result.version)
             THEN NoUpdate
             ELSE IF ~result.has \/ VGreater(directory_version, result.version)
             THEN ScanEntriesAnySentinel(w, Tail(order),
                      [has |-> TRUE, version |-> directory_version,
                       name |-> filename])
             ELSE ScanEntriesAnySentinel(w, Tail(order), result)

\* the loop of latest_available_update over the entries in the given order
RECURSIVE ScanEntries(_, _, _)
ScanEntries(w, order, result) ==
    IF Len(order) = 0 THEN result
    ELSE LET filename == Head(order)
             directory_version == from_string(filename, <<>>)
             sentinel_version == SentinelRead(w[filename])
         IN  IF directory_version = NoVersion
             THEN ScanEntries(w, Tail(order), result)
             ELSE IF sentinel_version = NoVersion
             THEN ScanEntries(w, Tail(order), result)
             ELSE IF ~VEq(directory_version, sentinel_version)
             THEN ScanEntries(w, Tail(order), result)
             ELSE IF result.has /\ VEq(directory_version, result.version)
             THEN NoUpdate
             ELSE IF ~result.has \/ VGreater(directory_version, result.version)
             THEN ScanEntries(w, Tail(order),
                      [has |-> TRUE, version |-> directory_version,
                       name |-> filename])
             ELSE ScanEntries(w, Tail(order), result)

latest_available_update(w, order) ==
    ScanEntries(w, Enumerate(w, order), NoUpdate)

(***************************************************************************)
(* State.                                                                  *)
(***************************************************************************)
VARIABLES
    wd,         \* the children of the working directory: name -> directory
    listing,    \* the order in which the file system enumerates the children
    lockfile,   \* update.lock exists on disk
    handles,    \* the managers whose lock_file has an open handle on it
    procs,      \* per manager: m_update_lock, and where its lock_file is
    cur_ver,    \* manager::m_current_version
    retain,     \* manager::m_retain_paths
    pc,         \* position of the process in the operation it executes
    ap,         \* locals of apply_latest and of launch_latest
    up,         \* locals of update(version, url) and extract_archive
    scratch,    \* the temporary directory of extract_archive
    dl_files,   \* http_downloader::m_downloaded_files
    dl_base,    \* http_downloader::m_base_url
    dl_cancel,  \* http_downloader::m_cancel_all
    verifiers,  \* http_downloader::m_verification_funcs
    g,          \* locals of http_downloader::get
    res,        \* outcome of the operation that has just ended
    crashed     \* where the previous process crashed

mgr_vars == <<listing, lockfile, handles, procs, cur_ver, retain>>

dl_vars == <<dl_files, dl_base, dl_cancel, verifiers, g>>

vars == <<wd, listing, lockfile, handles, procs, cur_ver, retain, pc, ap, up, scratch,
          dl_files, dl_base, dl_cancel, verifiers, g, res, crashed>>

NoRes == [op |-> "none", status |-> "none", version |-> NoVersion]

\* where the previous process was killed, the update it was applying, and
\* the two directories as they were when that apply_latest began
NoCrash == [at |-> "none", update |-> NoUpdate, upd_before |-> Absent,
            cur_before |-> Absent]

\* locals of apply_latest: the update chosen, what remains to be moved and
\* removed, and the directories as they were when the call began; locals of
\* launch_latest: is_process_latest, whether the manager had the lock when
\* the call began, and whether the launcher has been started
NoAp == [update |-> NoUpdate, todo |-> <<>>,
         upd_before |-> Absent, cur_before |-> Absent, recovering |-> NoUpdate,
         is_process_latest |-> FALSE, had_lock |-> FALSE, launched |-> FALSE]

\* the entries of a directory that remove_all has yet to delete
Entries(dir) ==
    {f \in PayloadNames : dir.files[f] # NoFile}
        \cup (IF dir.sentinel # NoFile THEN {".sentinel"} ELSE {})

\* the directory without the entry f
RemoveEntry(dir, f) ==
    IF f = ".sentinel" THEN [dir EXCEPT !.sentinel = NoFile]
    ELSE [dir EXCEPT !.files[f] = NoFile]

\* the managers: the one whose operations are followed, and others on the
\* same working directory
Managers == {"m1", "m2", "m3"}

Self == "m1"

\* a manager that holds no lock and is constructing none
NoProc == [lock |-> FALSE, at |-> "idle", last |-> "none"]

\* manager::acquire_lock() when no other manager is active: returns at once
\* when m_update_lock is set; otherwise the lock file is opened, or created
\* when missing
AcquireLock ==
    IF procs[Self].lock
    THEN UNCHANGED <<lockfile, handles, procs>>
    ELSE /\ procs' = [procs EXCEPT ![Self].lock = TRUE, ![Self].last = "ok"]
         /\ handles' = handles \cup {Self}
         /\ lockfile' = TRUE

(***************************************************************************)
(* manager::apply_latest                                                   *)
(***************************************************************************)
\* a condition that requires the latest directory to have a sentinel
ShouldApplyNeedsSentinel(update, latest_version) ==
    update.has /\ latest_version # NoVersion
               /\ VLess(latest_version, update.version)

\* a condition that compares with <= in place of <
ShouldApplyNotOlder(update, latest_version) ==
    update.has /\ (latest_version = NoVersion
                      \/ ~VLess(update.version, latest_version))

\* a condition that applies whatever the scan reports
ShouldApplyAnyUpdate(update, latest_version) == update.has

\* the condition under which apply_latest applies the update
ShouldApply(update, latest_version) ==
    update.has /\ (latest_version = NoVersion
                      \/ VLess(latest_version, update.version))

\* acquire_lock(), the sentinel of the latest directory, the scan and the
\* decision whether there is an update to apply
ApplyBegin(kill_processes) ==
    /\ pc = "idle"
    /\ AcquireLock
    /\ LET w1 == SentinelCtor(wd, CurrentName)
           update == latest_available_update(w1, listing)
           latest_version == SentinelRead(w1[CurrentName])
       IN  /\ wd' = w1
           /\ IF ShouldApply(update, latest_version)
              THEN /\ pc' = IF kill_processes THEN "apply_kill"
                                             ELSE "apply_retain"
                   /\ ap' = [NoAp EXCEPT
                                 !.update = update,
                                 !.todo = retain,
                                 !.upd_before = wd[update.name],
                                 !.cur_before = wd[CurrentName],
                                 !.recovering =
                                     IF crashed.at = "apply_rename"
                                     THEN crashed.update ELSE NoUpdate]
                   /\ res' = NoRes
              ELSE /\ pc' = "done"
                   /\ ap' = [NoAp EXCEPT !.cur_before = wd[CurrentName],
                                         !.recovering =
                                             IF crashed.at = "apply_rename"
                                             THEN crashed.update ELSE NoUpdate]
                   /\ res' = [op |-> "apply_latest", status |-> "absent",
                              version |-> NoVersion]
    /\ crashed' = NoCrash
    /\ UNCHANGED <<listing, cur_ver, retain, up, scratch, dl_vars>>

\* kill_processes() on the latest and the update directory: the processes
\* exit, or the wait times out and the call throws
ApplyKill ==
    /\ pc = "apply_kill"
    /\ \/ /\ pc' = "apply_retain"
          /\ res' = res
       \/ /\ pc' = "done"
          /\ res' = [op |-> "apply_latest", status |-> "error",
                     version |-> NoVersion]
    /\ UNCHANGED <<wd, mgr_vars, ap, up, scratch, dl_vars, crashed>>

\* an iteration that moves the retained path over the file of the update
MoveRetainedOverwrites(w, from, to, path) ==
    IF w[from].files[path] = NoFile THEN w
    ELSE [w EXCEPT ![to].files[path] = w[from].files[path],
                   ![from].files[path] = NoFile]

\* one iteration of the loop of move_retained_files
MoveRetained(w, from, to, path) ==
    IF w[from].files[path] = NoFile THEN w
    ELSE IF w[to].files[path] # NoFile THEN w
    ELSE [w EXCEPT ![to].files[path] = w[from].files[path],
                   ![from].files[path] = NoFile]

\* move_retained_files(latest_directory, update_directory), one path at a
\* time; the rename of a path may throw
ApplyRetain ==
    /\ pc = "apply_retain"
    /\ IF Len(ap.todo) = 0
       THEN /\ pc' = "apply_remove"
            /\ UNCHANGED <<wd, ap, res>>
       ELSE \/ /\ wd' = MoveRetained(wd, CurrentName, ap.update.name,
                                     Head(ap.todo))
               /\ ap' = [ap EXCEPT !.todo = Tail(ap.todo)]
               /\ UNCHANGED <<pc, res>>
            \/ /\ pc' = "done"
               /\ res' = [op |-> "apply_latest", status |-> "error",
                          version |-> NoVersion]
               /\ UNCHANGED <<wd, ap>>
    /\ UNCHANGED <<mgr_vars, up, scratch, dl_vars, crashed>>

\* an apply_latest that has removed the update directory too by the time it
\* renames it
ApplyRemoveUpdateToo ==
    /\ pc = "apply_remove"
    /\ \/ \E f \in Entries(wd[CurrentName]) :
             /\ wd' = [wd EXCEPT ![CurrentName] = RemoveEntry(@, f)]
             /\ pc' = pc
             /\ res' = res
       \/ /\ Entries(wd[CurrentName]) = {}
          /\ wd' = [wd EXCEPT ![CurrentName] = Absent,
                              ![ap.update.name] = Absent]
          /\ pc' = "apply_rename"
          /\ res' = res
       \/ /\ wd' = wd
          /\ pc' = "done"
          /\ res' = [op |-> "apply_latest", status |-> "error",
                     version |-> NoVersion]
    /\ UNCHANGED <<mgr_vars, ap, up, scratch, dl_vars, crashed>>

\* remove_all(latest_directory): deletes the entries one by one, then the
\* directory; throws when an entry cannot be deleted
ApplyRemove ==
    /\ pc = "apply_remove"
    /\ \/ \E f \in Entries(wd[CurrentName]) :
             /\ wd' = [wd EXCEPT ![CurrentName] = RemoveEntry(@, f)]
             /\ pc' = pc
             /\ res' = res
       \/ /\ Entries(wd[CurrentName]) = {}
          /\ wd' = [wd EXCEPT ![CurrentName] = Absent]
          /\ pc' = "apply_rename"
          /\ res' = res
       \/ /\ wd' = wd
          /\ pc' = "done"
          /\ res' = [op |-> "apply_latest", status |-> "error",
                     version |-> NoVersion]
    /\ UNCHANGED <<mgr_vars, ap, up, scratch, dl_vars, crashed>>

\* std::filesystem::rename(from, to) of a directory onto a missing name
RenameDir(w, from, to) == [w EXCEPT ![to] = w[from], ![from] = Absent]

\* std::filesystem::remove_all of a directory, in one step
RemoveDir(w, name) == [w EXCEPT ![name] = Absent]

\* an apply_latest whose last remove_all names the latest directory
ApplyRenameRemovesLatest ==
    /\ pc = "apply_rename"
    /\ \/ /\ wd' = RemoveDir(RenameDir(wd, ap.update.name, CurrentName),
                              CurrentName)
          /\ res' = [op |-> "apply_latest", status |-> "ok",
                     version |-> ap.update.version]
       \/ /\ wd' = wd
          /\ res' = [op |-> "apply_latest", status |-> "error",
                     version |-> NoVersion]
    /\ pc' = "done"
    /\ UNCHANGED <<mgr_vars, ap, up, scratch, dl_vars, crashed>>

\* rename(update_directory, latest_directory), remove_all(update_directory)
\* and the return of the version
ApplyRename ==
    /\ pc = "apply_rename"
    /\ \/ /\ wd' = RemoveDir(RenameDir(wd, ap.update.name, CurrentName),
                              ap.update.name)
          /\ res' = [op |-> "apply_latest", status |-> "ok",
                     version |-> ap.update.version]
       \/ /\ wd' = wd
          /\ res' = [op |-> "apply_latest", status |-> "error",
                     version |-> NoVersion]
    /\ pc' = "done"
    /\ UNCHANGED <<mgr_vars, ap, up, scratch, dl_vars, crashed>>

(***************************************************************************)
(* http_downloader                                                         *)
(***************************************************************************)
\* the origins (base URLs) a release can be downloaded from
Releases == {"r1", "r2"}

\* an empty m_base_url
NoBase == "none"

\* names of the manifest and of its detached signature
SumsName == <<"S">>
SigName == <<"G">>

\* filenames of release archives
PkgNames == {<<"r", "-", "0">>, <<"r", "-", "1">>}

DlNames == PkgNames \cup {SumsName, SigName}

\* the bytes of a downloaded file: where they came from, under which name,
\* and whether they are the publisher's or have been tampered with
NoContent == [origin |-> "none", name |-> <<>>, genuine |-> FALSE]

\* what the server of an origin may answer for a name
Served(base, name) ==
    {[origin |-> base, name |-> name, genuine |-> b] : b \in BOOLEAN}

VerifierKinds == {"sha256sums", "message_digest"}

\* base_verifier::files()
VerifierFiles(kind) ==
    IF kind = "sha256sums" THEN {SumsName} ELSE {SumsName, SigName}

\* m_additional_files after the calls of add_verification
AdditionalFiles(vs) == UNION {VerifierFiles(vs[i]) : i \in 1..Len(vs)}

\* the file a manifest records the hash of under the given path
HashListed(sums, path) ==
    [origin |-> sums.origin, name |-> path, genuine |-> sums.genuine]

\* verifiers::sha256sums::operator() and verifiers::message_digest::operator():
\* TRUE when the verifier returns without throwing
VerifierPasses(kind, path, files) ==
    IF kind = "sha256sums"
    THEN /\ files[SumsName] # NoContent
         /\ files[path] = HashListed(files[SumsName], path)
    ELSE /\ files[SigName] # NoContent
         /\ files[SumsName] # NoContent
         /\ files[SigName].genuine
         /\ files[SumsName].genuine
         /\ files[SigName].origin = files[SumsName].origin

NoG == [path |-> <<>>, aux |-> <<>>, primary |-> FALSE, cur |-> <<>>,
        got |-> NoContent, vers |-> <<>>, passed |-> <<>>, fetched |-> {},
        caller |-> "none", cancelled |-> FALSE]

NoUp == [version |-> NoVersion, name |-> <<>>, filename |-> <<>>,
         cops |-> 0, pops |-> 0, extracted |-> FALSE, cops_done |-> FALSE,
         before |-> [n \in DirNames |-> Absent], renamed |-> FALSE,
         fcv |-> "none"]

\* the first statements of get(): the base URL must be set; the additional
\* files are then fetched in the iteration order of the unordered set
GetBegin(base, path, caller) ==
    IF base = NoBase
    THEN /\ pc' = "done"
         /\ res' = [op |-> caller, status |-> "misconfigured",
                    version |-> NoVersion]
         /\ g' = NoG
    ELSE /\ \E order \in Perms(AdditionalFiles(verifiers)) :
               g' = [NoG EXCEPT !.path = path, !.aux = order,
                                !.vers = verifiers, !.caller = caller,
                                !.cancelled = dl_cancel]
         /\ pc' = "get_next"
         /\ res' = NoRes

\* get() ends: control returns to the caller, with the file or the exception
GetReturn(status) ==
    /\ IF g.caller = "update" /\ status = "ok"
       THEN /\ pc' = "upd_clear"
            /\ res' = res
       ELSE /\ pc' = "done"
            /\ res' = [op |-> g.caller, status |-> status,
                       version |-> up.version]

\* a get() that calls get_file for the primary file before the additional
\* files
GetNextPrimaryFirst ==
    /\ pc = "get_next"
    /\ LET name == IF ~g.primary THEN g.path ELSE Head(g.aux)
           advance == IF ~g.primary
                      THEN [g EXCEPT !.primary = TRUE]
                      ELSE [g EXCEPT !.aux = Tail(g.aux)]
       IN  IF Len(g.aux) = 0 /\ g.primary
           THEN /\ pc' = "get_verify"
                /\ g' = g
           ELSE IF dl_files[name] # NoContent
           THEN /\ pc' = pc
                /\ g' = advance
           ELSE /\ pc' = "get_resp"
                /\ g' = [advance EXCEPT !.cur = name]
    /\ UNCHANGED <<wd, mgr_vars, ap, up, scratch, dl_files, dl_base,
                   dl_cancel, verifiers, res, crashed>>

\* a get_file without the lookup in m_downloaded_files: every file is
\* downloaded by every get()
GetNextAlwaysDownloads ==
    /\ pc = "get_next"
    /\ LET name == IF Len(g.aux) > 0 THEN Head(g.aux) ELSE g.path
           advance == IF Len(g.aux) > 0
                      THEN [g EXCEPT !.aux = Tail(g.aux)]
                      ELSE [g EXCEPT !.primary = TRUE]
       IN  IF Len(g.aux) = 0 /\ g.primary
           THEN /\ pc' = "get_verify"
                /\ g' = g
           ELSE /\ pc' = "get_resp"
                /\ g' = [advance EXCEPT !.cur = name]
    /\ UNCHANGED <<wd, mgr_vars, ap, up, scratch, dl_files, dl_base,
                   dl_cancel, verifiers, res, crashed>>

\* the next call of get_file: a file already in m_downloaded_files is not
\* downloaded again
GetNext ==
    /\ pc = "get_next"
    /\ LET name == IF Len(g.aux) > 0 THEN Head(g.aux) ELSE g.path
           advance == IF Len(g.aux) > 0
                      THEN [g EXCEPT !.aux = Tail(g.aux)]
                      ELSE [g EXCEPT !.primary = TRUE]
       IN  IF Len(g.aux) = 0 /\ g.primary
           THEN /\ pc' = "get_verify"
                /\ g' = g
           ELSE IF dl_files[name] # NoContent
           THEN /\ pc' = pc
                /\ g' = advance
           ELSE /\ pc' = "get_resp"
                /\ g' = [advance EXCEPT !.cur = name]
    /\ UNCHANGED <<wd, mgr_vars, ap, up, scratch, dl_files, dl_base,
                   dl_cancel, verifiers, res, crashed>>

\* download_to_file, the response handler: cancelled, or a status other
\* than 200, ends the request; otherwise the body follows
GetResp ==
    /\ pc = "get_resp"
    /\ IF dl_cancel
       THEN GetReturn("cancelled") /\ g' = g
       ELSE \/ \E c \in Served(dl_base, g.cur) :
                 /\ g' = [g EXCEPT !.got = c]
                 /\ pc' = "get_body"
                 /\ res' = res
            \/ GetReturn("transport") /\ g' = g
    /\ UNCHANGED <<wd, mgr_vars, ap, up, scratch, dl_files, dl_base,
                   dl_cancel, verifiers, crashed>>

\* a content receiver that does not read m_cancel_all
GetBodyIgnoresCancel ==
    /\ pc = "get_body"
    /\ \/ /\ dl_files' = [dl_files EXCEPT ![g.cur] = g.got]
          /\ g' = [g EXCEPT !.fetched = @ \cup {g.cur}]
          /\ pc' = "get_next"
          /\ res' = res
       \/ GetReturn("transport") /\ g' = g /\ dl_files' = dl_files
    /\ UNCHANGED <<wd, mgr_vars, ap, up, scratch, dl_base,
                   dl_cancel, verifiers, crashed>>

\* a get_file that stores what was received when the download fails or is
\* cancelled
GetBodyStoresPartial ==
    /\ pc = "get_body"
    /\ IF dl_cancel
       THEN /\ GetReturn("cancelled") /\ g' = g
            /\ dl_files' = [dl_files EXCEPT ![g.cur] = g.got]
       ELSE \/ /\ dl_files' = [dl_files EXCEPT ![g.cur] = g.got]
               /\ g' = [g EXCEPT !.fetched = @ \cup {g.cur}]
               /\ pc' = "get_next"
               /\ res' = res
            \/ /\ GetReturn("transport") /\ g' = g
               /\ dl_files' = [dl_files EXCEPT ![g.cur] = g.got]
    /\ UNCHANGED <<wd, mgr_vars, ap, up, scratch, dl_base,
                   dl_cancel, verifiers, crashed>>

\* download_to_file, the content receiver, and the emplace of get_file
GetBody ==
    /\ pc = "get_body"
    /\ IF dl_cancel
       THEN GetReturn("cancelled") /\ g' = g /\ dl_files' = dl_files
       ELSE \/ /\ dl_files' = [dl_files EXCEPT ![g.cur] = g.got]
               /\ g' = [g EXCEPT !.fetched = @ \cup {g.cur}]
               /\ pc' = "get_next"
               /\ res' = res
            \/ GetReturn("transport") /\ g' = g /\ dl_files' = dl_files
    /\ UNCHANGED <<wd, mgr_vars, ap, up, scratch, dl_base,
                   dl_cancel, verifiers, crashed>>

\* a get() that verifies only what it has just downloaded: when every file
\* came from m_downloaded_files the verifiers are not run
GetVerifyFetchedOnly ==
    /\ pc = "get_verify"
    /\ IF Len(g.vers) = 0 \/ g.fetched = {}
       THEN GetReturn("ok") /\ g' = g
       ELSE IF VerifierPasses(Head(g.vers), g.path, dl_files)
       THEN /\ g' = [g EXCEPT !.vers = Tail(g.vers),
                              !.passed = Append(g.passed, Head(g.vers))]
            /\ pc' = pc
            /\ res' = res
       ELSE GetReturn("verification_failed") /\ g' = g
    /\ UNCHANGED <<wd, mgr_vars, ap, up, scratch, dl_files, dl_base,
                   dl_cancel, verifiers, crashed>>

\* the loop over m_verification_funcs and the return of the result
GetVerify ==
    /\ pc = "get_verify"
    /\ IF Len(g.vers) = 0
       THEN GetReturn("ok") /\ g' = g
       ELSE IF VerifierPasses(Head(g.vers), g.path, dl_files)
       THEN /\ g' = [g EXCEPT !.vers = Tail(g.vers),
                              !.passed = Append(g.passed, Head(g.vers))]
            /\ pc' = pc
            /\ res' = res
       ELSE GetReturn("verification_failed") /\ g' = g
    /\ UNCHANGED <<wd, mgr_vars, ap, up, scratch, dl_files, dl_base,
                   dl_cancel, verifiers, crashed>>

(***************************************************************************)
(* updater::update(version, url)                                           *)
(***************************************************************************)
\* std::regex_search of filename_contains_version_pattern(V) in a filename;
\* V is pasted into the pattern, so that its periods match any character
FilenameContainsVersion(filename, V) ==
    LET n == Len(filename)
        NonDigit(i) == i \in 1..n /\ ~IsDigit(filename[i])
        NonDotDigit(i) == NonDigit(i) /\ filename[i] # "."
        Dot(i) == i \in 1..n /\ filename[i] = "."
        LeftOK(b) == \/ b = 1
                     \/ b = 2 /\ NonDigit(1)
                     \/ NonDigit(b - 2) /\ Dot(b - 1)
                     \/ NonDotDigit(b - 1)
        VMatch(b) == /\ b + Len(V) - 1 <= n
                     /\ \A j \in 1..Len(V) :
                           \/ V[j] = "." /\ filename[b + j - 1] \notin {LF, CR}
                           \/ V[j] = filename[b + j - 1]
        RightOK(e) == \/ NonDotDigit(e)
                      \/ Dot(e) /\ NonDigit(e + 1)
                      \/ NonDigit(e) /\ e = n
                      \/ e = n + 1
    IN  \E b \in 1..(n + 1) : LeftOK(b) /\ VMatch(b) /\ RightOK(b + Len(V))

\* a check_url that takes an unset m_filename_contains_version for false
CheckUrlUnsetIsFalse(fcv, filename, version, name_ok, url_ok) ==
    IF fcv = "true" /\ ~FilenameContainsVersion(filename, string(version))
    THEN "version_not_in_filename"
    ELSE IF ~name_ok THEN "filename_pattern"
    ELSE IF ~url_ok THEN "url_pattern"
    ELSE "ok"

\* updater::check_url: "ok", or the reason for which it throws
CheckUrl(fcv, filename, version, name_ok, url_ok) ==
    IF fcv = "unset" THEN "misconfigured"
    ELSE IF fcv = "true" /\ ~FilenameContainsVersion(filename, string(version))
    THEN "version_not_in_filename"
    ELSE IF ~name_ok THEN "filename_pattern"
    ELSE IF ~url_ok THEN "url_pattern"
    ELSE "ok"

\* what zip_extract writes for a downloaded archive
ArchiveDir(c) ==
    [exists |-> TRUE, sentinel |-> NoFile,
     files |-> [f \in PayloadNames |->
                  IF f = "notes" /\ c.origin # "r2" THEN NoFile
                  ELSE <<f, c.origin,
                         IF c.genuine THEN "genuine" ELSE "tampered">>]]

StagedDirs(w) == {n \in VerNames : w[n].exists}

\* check_url, base_url(), and the call of get()
UpdateBegin(version, base, filename, fcv, name_ok, url_ok) ==
    /\ pc = "idle"
    /\ up' = [NoUp EXCEPT !.version = version, !.name = string(version),
                          !.filename = filename, !.before = wd,
                          !.fcv = fcv]
    /\ LET check == CheckUrl(fcv, filename, version, name_ok, url_ok)
       IN  IF check # "ok"
           THEN /\ pc' = "done"
                /\ res' = [op |-> "update", status |-> check,
                           version |-> version]
                /\ UNCHANGED <<dl_base, g>>
           ELSE /\ dl_base' = base
                /\ GetBegin(base, filename, "update")
    /\ crashed' = NoCrash
    /\ UNCHANGED <<wd, mgr_vars, ap, scratch, dl_files, dl_cancel, verifiers>>

\* an extract_archive without the deferred remove_all(temp_dir)
ExtractFailLeavesScratch(status) ==
    /\ scratch' = scratch
    /\ pc' = "done"
    /\ res' = [op |-> "update", status |-> status, version |-> up.version]

\* extract_archive fails: the deferred remove_all(temp_dir) runs
ExtractFail(status) ==
    /\ scratch' = Absent
    /\ pc' = "done"
    /\ res' = [op |-> "update", status |-> status, version |-> up.version]

\* remove_all(output_directory) when it exists, entry by entry; then
\* create_temporary_directory()
UpdClear ==
    /\ pc = "upd_clear"
    /\ \/ \E f \in Entries(wd[up.name]) :
             /\ wd' = [wd EXCEPT ![up.name] = RemoveEntry(@, f)]
             /\ UNCHANGED <<pc, res, scratch, up>>
       \/ /\ wd[up.name].exists
          /\ Entries(wd[up.name]) = {}
          /\ wd' = [wd EXCEPT ![up.name] = Absent]
          /\ UNCHANGED <<pc, res, scratch, up>>
       \/ /\ wd[up.name].exists
          /\ pc' = "done"
          /\ res' = [op |-> "update", status |-> "clear",
                     version |-> up.version]
          /\ UNCHANGED <<wd, scratch, up>>
       \/ /\ ~wd[up.name].exists
          /\ scratch' = EmptyDir
          /\ pc' = "upd_extract"
          /\ UNCHANGED <<wd, res, up>>
    /\ UNCHANGED <<mgr_vars, ap, dl_vars, crashed>>

\* an extract_archive that creates the output directory and extracts the
\* archive into it, with no temporary directory
UpdExtractInPlace ==
    /\ pc = "upd_extract"
    /\ \E archive_type \in {"zip", "unknown"} :
         IF archive_type # "zip"
         THEN ExtractFail("unsupported") /\ UNCHANGED <<up, wd>>
         ELSE \/ /\ wd' = [wd EXCEPT ![up.name] =
                                 ArchiveDir(dl_files[up.filename])]
                 /\ scratch' = ArchiveDir(dl_files[up.filename])
                 /\ up' = [up EXCEPT !.extracted = TRUE]
                 /\ pc' = "upd_cops"
                 /\ res' = res
              \/ ExtractFail("extract") /\ UNCHANGED <<up, wd>>
    /\ UNCHANGED <<mgr_vars, ap, dl_vars, crashed>>

\* the switch on m_archive_type and zip_extract
UpdExtract ==
    /\ pc = "upd_extract"
    /\ \E archive_type \in {"zip", "unknown"} :
         IF archive_type # "zip"
         THEN ExtractFail("unsupported") /\ up' = up
         ELSE \/ /\ scratch' = ArchiveDir(dl_files[up.filename])
                 /\ up' = [up EXCEPT !.extracted = TRUE]
                 /\ pc' = "upd_cops"
                 /\ res' = res
              \/ ExtractFail("extract") /\ up' = up
    /\ UNCHANGED <<wd, mgr_vars, ap, dl_vars, crashed>>

\* the loop over m_content_operations, on the temporary directory: the loop
\* ends, or the next operation returns, or it throws
UpdContentOp ==
    /\ pc = "upd_cops"
    /\ \/ /\ pc' = "upd_rename"
          /\ up' = [up EXCEPT !.cops_done = TRUE]
          /\ UNCHANGED <<scratch, res>>
       \/ /\ up.cops < MaxOps
          /\ up' = [up EXCEPT !.cops = @ + 1]
          /\ UNCHANGED <<pc, scratch, res>>
       \/ /\ up.cops < MaxOps
          /\ ExtractFail("content_op")
          /\ up' = up
    /\ UNCHANGED <<wd, mgr_vars, ap, dl_vars, crashed>>

\* std::filesystem::rename(temp_dir, output_directory)
UpdRename ==
    /\ pc = "upd_rename"
    /\ \/ /\ wd' = [wd EXCEPT ![up.name] = scratch]
          /\ scratch' = Absent
          /\ up' = [up EXCEPT !.renamed = TRUE]
          /\ pc' = "upd_pops"
          /\ res' = res
       \/ ExtractFail("rename") /\ UNCHANGED <<wd, up>>
    /\ UNCHANGED <<mgr_vars, ap, dl_vars, crashed>>

\* a loop over m_post_update_operations that removes the output directory
\* when an operation throws
UpdPostOpRemoves ==
    /\ pc = "upd_pops"
    /\ \/ /\ pc' = "upd_sentinel"
          /\ UNCHANGED <<wd, up, scratch, res>>
       \/ /\ up.pops < MaxOps
          /\ up' = [up EXCEPT !.pops = @ + 1]
          /\ UNCHANGED <<wd, pc, scratch, res>>
       \/ /\ up.pops < MaxOps
          /\ ExtractFail("post_op")
          /\ wd' = [wd EXCEPT ![up.name] = Absent]
          /\ up' = up
    /\ UNCHANGED <<mgr_vars, ap, dl_vars, crashed>>

\* the loop over m_post_update_operations, on the output directory: the
\* loop ends, or the next operation returns, or it throws
UpdPostOp ==
    /\ pc = "upd_pops"
    /\ \/ /\ pc' = "upd_sentinel"
          /\ UNCHANGED <<up, scratch, res>>
       \/ /\ up.pops < MaxOps
          /\ up' = [up EXCEPT !.pops = @ + 1]
          /\ UNCHANGED <<pc, scratch, res>>
       \/ /\ up.pops < MaxOps
          /\ ExtractFail("post_op")
          /\ up' = up
    /\ UNCHANGED <<wd, mgr_vars, ap, dl_vars, crashed>>

\* a create_sentinel_file that constructs the sentinel and never writes it
WriteSentinelSkipped(w, name, version) == SentinelCtor(w, name)

\* sentinel::write() of "version=" + version.string() into a directory
WriteSentinel(w, name, version) ==
    [SentinelCtor(w, name) EXCEPT ![name].sentinel = SentinelText(version)]

\* create_sentinel_file(output_directory, version) and the return
UpdSentinel ==
    /\ pc = "upd_sentinel"
    /\ wd' = WriteSentinel(wd, up.name, up.version)
    /\ scratch' = Absent
    /\ pc' = "done"
    /\ res' = [op |-> "update", status |-> "ok", version |-> up.version]
    /\ UNCHANGED <<mgr_vars, ap, up, dl_vars, crashed>>

(***************************************************************************)
(* The process: its end, its restart, and the return to the caller.        *)
(***************************************************************************)
\* the caller takes the result of the operation that ended
Ack ==
    /\ pc = "done"
    /\ pc' = "idle"
    /\ res' = NoRes
    /\ ap' = NoAp
    /\ up' = NoUp
    /\ g' = NoG
    /\ UNCHANGED <<wd, mgr_vars, scratch, dl_files, dl_base, dl_cancel,
                   verifiers, crashed>>

\* the process is killed in the middle of an operation: its handles are
\* closed, its objects are gone, the files it wrote stay
Crash ==
    /\ pc \notin {"idle", "done", "stopped"}
    /\ pc' = "stopped"
    /\ crashed' = [at |-> pc, update |-> ap.update,
                   upd_before |-> ap.upd_before, cur_before |-> ap.cur_before]
    /\ handles' = handles \ {Self}
    /\ procs' = [procs EXCEPT ![Self] = NoProc]
    /\ ap' = NoAp
    /\ up' = NoUp
    /\ g' = NoG
    /\ res' = NoRes
    /\ dl_files' = [n \in DlNames |-> NoContent]
    /\ dl_base' = NoBase
    /\ dl_cancel' = FALSE
    /\ UNCHANGED <<wd, listing, lockfile, cur_ver, retain, scratch, verifiers>>

\* a constructor that writes the sentinel only when the directory has none
WriteSentinelOnlyWhenMissing(w, is_process_latest, version) ==
    IF ~w[CurrentName].exists THEN w
    ELSE IF is_process_latest /\ w[CurrentName].sentinel = NoFile
    THEN WriteSentinel(w, CurrentName, version)
    ELSE w

\* manager::write_sentinel_for_current_process
WriteSentinelForCurrentProcess(w, is_process_latest, version) ==
    IF ~w[CurrentName].exists THEN w
    ELSE IF is_process_latest THEN WriteSentinel(w, CurrentName, version)
    ELSE w

\* the next process constructs its manager: manager::manager
Restart(version, is_process_latest) ==
    /\ pc = "stopped"
    /\ is_process_latest => wd[CurrentName].files["app"] # NoFile
    /\ AcquireLock
    /\ cur_ver' = version
    /\ wd' = WriteSentinelForCurrentProcess(wd, is_process_latest, version)
    /\ pc' = "idle"
    /\ UNCHANGED <<listing, retain, ap, up, scratch, dl_vars, res, crashed>>

(***************************************************************************)
(* Initial layouts of the working directory.                               *)
(***************************************************************************)
\* the current directory as an installer leaves it
InstalledDir(sentinel) ==
    [exists |-> TRUE, sentinel |-> sentinel,
     files |-> [f \in PayloadNames |-> <<f, "installed">>]]

\* a version directory as a completed update() leaves it
StagedDir(v) ==
    [exists |-> TRUE, sentinel |-> SentinelText(v),
     files |-> [f \in PayloadNames |->
                  IF f = "notes" THEN NoFile ELSE <<f, "staged">> \o v]]

\* a version directory that update() left without a sentinel
UnfinishedDir(v) == [StagedDir(v) EXCEPT !.sentinel = NoFile]

InitCurrent ==
    {Absent, InstalledDir(NoFile)}
        \cup {InstalledDir(SentinelText(v)) : v \in Versions}

\* the layout with the given current directory, in which the versions of
\* S have a directory, those of U without a sentinel
Layout(current, S, U) ==
    [n \in DirNames |->
        IF n = CurrentName THEN current
        ELSE IF \E v \in U : string(v) = n
        THEN UnfinishedDir(CHOOSE v \in U : string(v) = n)
        ELSE IF \E v \in S : string(v) = n
        THEN StagedDir(CHOOSE v \in S : string(v) = n)
        ELSE Absent]

\* the layouts with at most MaxDirs version directories
InitLayouts ==
    UNION {{Layout(current, S, U) : current \in InitCurrent, U \in SUBSET S} :
              S \in {T \in SUBSET Versions : Cardinality(T) <= MaxDirs}}

\* the version of the program the installation consists of
InstalledVersion(w) ==
    IF SentinelRead(w[CurrentName]) = NoVersion THEN <<0>>
    ELSE SentinelRead(w[CurrentName])

InitRest ==
    /\ lockfile = TRUE
    /\ handles = {Self}
    /\ procs = [m \in Managers |->
                  IF m = Self THEN [NoProc EXCEPT !.lock = TRUE, !.last = "ok"]
                  ELSE NoProc]
    /\ pc = "idle"
    /\ ap = NoAp
    /\ up = NoUp
    /\ scratch = Absent
    /\ dl_base = NoBase
    /\ dl_cancel = FALSE
    /\ g = NoG
    /\ res = NoRes
    /\ crashed = NoCrash

(***************************************************************************)
(* Spec: apply_latest() on the working directory, by a process that may    *)
(* crash and be started again.                                             *)
(***************************************************************************)
Init ==
    /\ wd \in InitLayouts
    /\ listing \in Perms(StagedDirs(wd))
    /\ cur_ver = InstalledVersion(wd)
    /\ retain \in {<<>>, <<"notes">>}
    /\ dl_files = [n \in DlNames |-> NoContent]
    /\ verifiers = <<>>
    /\ InitRest

ApplyLatest == \E kill_processes \in BOOLEAN : ApplyBegin(kill_processes)

\* the program is started again, from the current directory or not
NewProcess ==
    \E is_process_latest \in BOOLEAN : Restart(cur_ver, is_process_latest)

Next ==
    \/ ApplyLatest
    \/ ApplyKill
    \/ ApplyRetain
    \/ ApplyRemove
    \/ ApplyRename
    \/ Ack
    \/ Crash
    \/ NewProcess

Spec == Init /\ [][Next]_vars

(***************************************************************************)
(* SpecUpdate: one update(version, url) of a fresh updater.                *)
(***************************************************************************)
\* the verifiers an updater is configured with: none, or the manifest and
\* its signature
UpdaterVerifiers == {<<>>, <<"sha256sums", "message_digest">>}

\* the layouts an update() starts from: the installation, and possibly a
\* directory that an earlier update() left, with its sentinel or without
InitUpdateLayouts ==
    UNION {{Layout(InstalledDir(NoFile), S, U) : U \in SUBSET S} :
              S \in {{}} \cup {{v} : v \in Versions}}

InitUpdate ==
    /\ wd \in InitUpdateLayouts
    /\ listing = <<>>
    /\ cur_ver = InstalledVersion(wd)
    /\ retain = <<>>
    /\ dl_files = [n \in DlNames |-> NoContent]
    /\ verifiers \in UpdaterVerifiers
    /\ InitRest

Update ==
    \E version \in Versions, base \in Releases, filename \in PkgNames,
       fcv \in {"unset", "true", "false"}, name_ok \in BOOLEAN,
       url_ok \in BOOLEAN :
        UpdateBegin(version, base, filename, fcv, name_ok, url_ok)

NextUpdate ==
    \/ Update
    \/ GetNext
    \/ GetResp
    \/ GetBody
    \/ GetVerify
    \/ UpdClear
    \/ UpdExtract
    \/ UpdContentOp
    \/ UpdRename
    \/ UpdPostOp
    \/ UpdSentinel

SpecUpdate == InitUpdate /\ [][NextUpdate]_vars

(***************************************************************************)
(* SpecDl: the calls of one http_downloader.                               *)
(***************************************************************************)
InitDl ==
    /\ wd = Layout(Absent, {}, {})
    /\ listing = <<>>
    /\ cur_ver = <<0>>
    /\ retain = <<>>
    /\ dl_files = [n \in DlNames |-> NoContent]
    /\ verifiers = <<>>
    /\ InitRest

\* http_downloader::add_verification
AddVerification(kind) ==
    /\ pc = "idle"
    /\ Len(verifiers) < MaxVerifiers
    /\ verifiers' = Append(verifiers, kind)
    /\ UNCHANGED <<wd, mgr_vars, pc, ap, up, scratch, dl_files, dl_base,
                   dl_cancel, g, res, crashed>>

\* http_downloader::base_url(url)
BaseUrl(base) ==
    /\ pc = "idle"
    /\ dl_base' = base
    /\ UNCHANGED <<wd, mgr_vars, pc, ap, up, scratch, dl_files, dl_cancel,
                   verifiers, g, res, crashed>>

\* http_downloader::get(path), called directly
Get(path) ==
    /\ pc = "idle"
    /\ GetBegin(dl_base, path, "get")
    /\ UNCHANGED <<wd, mgr_vars, ap, up, scratch, dl_files, dl_base,
                   dl_cancel, verifiers, crashed>>

\* http_downloader::cancel(state), from any thread and at any time; a get()
\* in progress notes whether cancel is set since
Cancel(state) ==
    /\ dl_cancel' = state
    /\ g' = IF pc \in {"get_next", "get_resp", "get_body", "get_verify"}
            THEN [g EXCEPT !.cancelled = state]
            ELSE g
    /\ UNCHANGED <<wd, mgr_vars, pc, ap, up, scratch, dl_files, dl_base,
                   verifiers, res, crashed>>

DlCancel == \E state \in BOOLEAN : Cancel(state)

DlAddVerification == \E kind \in VerifierKinds : AddVerification(kind)

DlBaseUrl == \E base \in Releases : BaseUrl(base)

DlGet == \E path \in PkgNames : Get(path)

NextDl ==
    \/ DlAddVerification
    \/ DlBaseUrl
    \/ DlGet
    \/ DlCancel
    \/ GetNext
    \/ GetResp
    \/ GetBody
    \/ GetVerify
    \/ Ack

SpecDl == InitDl /\ [][NextDl]_vars

(***************************************************************************)
(* SpecLock: the lock file of one working directory and the managers, of   *)
(* one process or of several, that acquire and release it.                 *)
(***************************************************************************)
lock_others == <<wd, listing, cur_ver, retain, pc, ap, up, scratch, dl_files,
                 dl_base, dl_cancel, verifiers, g, res, crashed>>

\* a CreateFileW that shares the file (FILE_SHARE_READ in place of 0): an
\* open succeeds whatever handles are open
OpenAllowedShared(open_handles) == TRUE

\* CreateFileW with dwShareMode 0 on an existing file: the open succeeds
\* only when no other handle on the file is open
OpenAllowed(open_handles) == open_handles = {}

\* manager::manager and manager::acquire_lock when m_update_lock is null:
\* the constructor of lock_file begins
LockBegin(m) ==
    /\ procs[m].at = "idle"
    /\ ~procs[m].lock
    /\ procs' = [procs EXCEPT ![m].at = "open_existing", ![m].last = "none"]
    /\ UNCHANGED <<lockfile, handles, lock_others>>

\* CreateFileW(OPEN_EXISTING): a valid handle ends the constructor; a missing
\* file or a sharing violation leads to the second CreateFileW
LockOpenExisting(m) ==
    /\ procs[m].at = "open_existing"
    /\ IF lockfile /\ OpenAllowed(handles)
       THEN /\ handles' = handles \cup {m}
            /\ procs' = [procs EXCEPT ![m] = [lock |-> TRUE, at |-> "idle",
                                              last |-> "ok"]]
       ELSE /\ handles' = handles
            /\ procs' = [procs EXCEPT ![m].at = "create_new"]
    /\ UNCHANGED <<lockfile, lock_others>>

\* CreateFileW(CREATE_NEW): creates the file when it is missing; otherwise
\* the constructor throws and acquire_lock fails
LockCreateNew(m) ==
    /\ procs[m].at = "create_new"
    /\ IF ~lockfile
       THEN /\ lockfile' = TRUE
            /\ handles' = handles \cup {m}
            /\ procs' = [procs EXCEPT ![m] = [lock |-> TRUE, at |-> "idle",
                                              last |-> "ok"]]
       ELSE /\ procs' = [procs EXCEPT ![m] = [lock |-> FALSE, at |-> "idle",
                                              last |-> "failed"]]
            /\ UNCHANGED <<lockfile, handles>>
    /\ UNCHANGED lock_others

\* manager::release_lock and the destruction of a manager: the destructor
\* of lock_file begins
LockRelease(m) ==
    /\ procs[m].at = "idle"
    /\ procs[m].lock
    /\ procs' = [procs EXCEPT ![m].at = "close"]
    /\ UNCHANGED <<lockfile, handles, lock_others>>

\* CloseHandle(m_handle)
LockClose(m) ==
    /\ procs[m].at = "close"
    /\ handles' = handles \ {m}
    /\ procs' = [procs EXCEPT ![m].at = "delete"]
    /\ UNCHANGED <<lockfile, lock_others>>

\* a destructor of lock_file that closes the handle and leaves the file
LockDeleteKeepsFile(m) ==
    /\ procs[m].at = "delete"
    /\ lockfile' = lockfile
    /\ procs' = [procs EXCEPT ![m] = [lock |-> FALSE, at |-> "idle",
                                      last |-> "released"]]
    /\ UNCHANGED <<handles, lock_others>>

\* DeleteFileW(m_filename), which fails while a handle on the file is open,
\* and m_update_lock = nullptr
LockDelete(m) ==
    /\ procs[m].at = "delete"
    /\ lockfile' = IF handles = {} THEN FALSE ELSE lockfile
    /\ procs' = [procs EXCEPT ![m] = [lock |-> FALSE, at |-> "idle",
                                      last |-> "released"]]
    /\ UNCHANGED <<handles, lock_others>>

\* the process of a manager ends without running destructors: the system
\* closes its handle, the file stays
LockKill(m) ==
    /\ procs[m] # NoProc
    /\ handles' = handles \ {m}
    /\ procs' = [procs EXCEPT ![m] = NoProc]
    /\ UNCHANGED <<lockfile, lock_others>>

InitLock ==
    /\ wd = Layout(Absent, {}, {})
    /\ listing = <<>>
    /\ cur_ver = <<0>>
    /\ retain = <<>>
    /\ dl_files = [n \in DlNames |-> NoContent]
    /\ verifiers = <<>>
    /\ lockfile \in BOOLEAN
    /\ handles = {}
    /\ procs = [m \in Managers |-> NoProc]
    /\ pc = "idle"
    /\ ap = NoAp
    /\ up = NoUp
    /\ scratch = Absent
    /\ dl_base = NoBase
    /\ dl_cancel = FALSE
    /\ g = NoG
    /\ res = NoRes
    /\ crashed = NoCrash

NextLock ==
    \/ \E m \in Managers : LockBegin(m)
    \/ \E m \in Managers : LockOpenExisting(m)
    \/ \E m \in Managers : LockCreateNew(m)
    \/ \E m \in Managers : LockRelease(m)
    \/ \E m \in Managers : LockClose(m)
    \/ \E m \in Managers : LockDelete(m)
    \/ \E m \in Managers : LockKill(m)

SpecLock == InitLock /\ [][NextLock]_vars

(***************************************************************************)
(* SpecScan: latest_available_update() on working directories that hold    *)
(* valid and invalid version directories, in every enumeration order.      *)
(***************************************************************************)
\* the versions that name a directory: each one-component version, written
\* without and with a trailing zero (2 and 2.0)
ScanVersions ==
    {<<c>> : c \in 0..MaxComp} \cup {<<c, 0>> : c \in 0..MaxComp}

\* a child of the working directory whose name is no version
OtherName == <<"t", "m", "p">>

\* text of a sentinel that sentinel::decode rejects
GarbledText == VersionKey \o <<"=", "x">>

\* what a version directory can be: complete, without a sentinel, with a
\* sentinel that cannot be parsed, with the sentinel of another version
ScanKinds == {"valid", "unfinished", "garbled", "mismatch"}

ScanDir(v, kind) ==
    [StagedDir(v) EXCEPT !.sentinel =
        CASE kind = "valid" -> SentinelText(v)
          [] kind = "unfinished" -> NoFile
          [] kind = "garbled" -> GarbledText
          [] kind = "mismatch" -> SentinelText(<<v[1] + 1>>)]

\* the working directory with the current directory, a child that is no
\* version, and the version directories of S, each of the kind given
ScanLayout(S, kinds) ==
    [n \in {string(v) : v \in ScanVersions} \cup {CurrentName, OtherName} |->
        IF n = CurrentName THEN InstalledDir(SentinelText(<<MaxComp>>))
        ELSE IF n = OtherName
        THEN [EmptyDir EXCEPT !.sentinel = SentinelText(<<MaxComp>>)]
        ELSE IF \E v \in S : string(v) = n
        THEN LET v == CHOOSE v \in S : string(v) = n
             IN  ScanDir(v, kinds[v])
        ELSE Absent]

InitScan ==
    /\ \E S \in {T \in SUBSET ScanVersions : Cardinality(T) <= MaxScanDirs} :
         /\ \E kinds \in [S -> ScanKinds] : wd = ScanLayout(S, kinds)
         /\ \E order \in Perms({string(v) : v \in S}), first \in BOOLEAN :
               listing = IF first THEN <<CurrentName, OtherName>> \o order
                                  ELSE order \o <<CurrentName, OtherName>>
    /\ cur_ver = <<0>>
    /\ retain = <<>>
    /\ dl_files = [n \in DlNames |-> NoContent]
    /\ verifiers = <<>>
    /\ InitRest

\* manager::latest_available_update(), called by the owner of the manager
LatestAvailableUpdate ==
    /\ pc = "idle"
    /\ AcquireLock
    /\ LET result == latest_available_update(wd, listing)
       IN  /\ ap' = [NoAp EXCEPT !.update = result]
           /\ res' = [op |-> "latest_available_update",
                      status |-> IF result.has THEN "ok" ELSE "absent",
                      version |-> result.version]
    /\ pc' = "done"
    /\ UNCHANGED <<wd, listing, cur_ver, retain, up, scratch, dl_vars, crashed>>

NextScan ==
    \/ LatestAvailableUpdate
    \/ Ack

SpecScan == InitScan /\ [][NextScan]_vars

(***************************************************************************)
(* SpecLaunch: manager::launch_latest, called by the program that owns the *)
(* manager, which may have released the lock before.                       *)
(***************************************************************************)
\* the directory .tmp of the working directory, into which launch_latest
\* copies the launcher
TmpName == <<".", "t", "m", "p">>

\* the directory with the copy of the launcher executable
LauncherCopy ==
    [exists |-> TRUE, sentinel |-> NoFile,
     files |-> [f \in PayloadNames |->
                  IF f = "app" THEN <<"launcher">> ELSE NoFile]]

\* a release_lock() that leaves the lock as it is
ReleaseLockSkipped ==
    UNCHANGED <<lockfile, handles, procs>>

\* manager::release_lock() when no other manager is active: the handle is
\* closed and the lock file deleted
ReleaseLock ==
    IF ~procs[Self].lock
    THEN UNCHANGED <<lockfile, handles, procs>>
    ELSE /\ procs' = [procs EXCEPT ![Self].lock = FALSE,
                                   ![Self].last = "released"]
         /\ handles' = handles \ {Self}
         /\ lockfile' = (handles \ {Self} # {})

\* have_newer_version without the test of is_process_latest
HaveNewerVersionAnyProcess(update, latest_version, is_process_latest, current) ==
    \/ update.has /\ VGreater(update.version, current)
    \/ latest_version # NoVersion /\ VGreater(latest_version, current)

\* have_newer_version: there is an update with a newer version number, or
\* the process is not running the latest version and its version is newer
HaveNewerVersion(update, latest_version, is_process_latest, current) ==
    \/ update.has /\ VGreater(update.version, current)
    \/ /\ ~is_process_latest
       /\ latest_version # NoVersion
       /\ VGreater(latest_version, current)

\* a return of false that gives the lock up
LaunchReturnFalseReleased ==
    /\ pc' = "done"
    /\ res' = [op |-> "launch_latest", status |-> "false",
               version |-> NoVersion]
    /\ procs' = [procs EXCEPT ![Self].lock = FALSE]
    /\ handles' = handles \ {Self}
    /\ lockfile' = FALSE

\* launch_latest returns false, after acquire_lock()
LaunchReturnFalse ==
    /\ pc' = "done"
    /\ res' = [op |-> "launch_latest", status |-> "false",
               version |-> NoVersion]
    /\ AcquireLock

\* acquire_lock(), the sentinel of the latest directory, the scan, and the
\* decision whether there is a newer version to launch
LaunchBegin(is_process_latest) ==
    /\ pc = "idle"
    /\ is_process_latest => wd[CurrentName].files["app"] # NoFile
    /\ LET w1 == SentinelCtor(wd, CurrentName)
           update == latest_available_update(w1, listing)
           latest_version == SentinelRead(w1[CurrentName])
           have_latest == latest_version # NoVersion
           have_update == update.has
       IN  /\ wd' = w1
           /\ ap' = [NoAp EXCEPT !.update = update,
                                 !.is_process_latest = is_process_latest,
                                 !.had_lock = procs[Self].lock]
           /\ IF ~have_latest /\ ~have_update
              THEN LaunchReturnFalse
              ELSE IF HaveNewerVersion(update, latest_version,
                                       is_process_latest, cur_ver)
              THEN /\ pc' = "launch_copy"
                   /\ res' = NoRes
                   /\ AcquireLock
              ELSE LaunchReturnFalse
    /\ crashed' = NoCrash
    /\ UNCHANGED <<listing, cur_ver, retain, up, scratch, dl_vars>>

\* the temporary directory under .tmp and the copy of the launcher into it;
\* each of the calls may throw
LaunchCopy ==
    /\ pc = "launch_copy"
    /\ \/ /\ wd' = [wd EXCEPT ![TmpName] = LauncherCopy]
          /\ pc' = "launch_release"
          /\ res' = res
       \/ /\ wd' \in {wd, [wd EXCEPT ![TmpName] = EmptyDir]}
          /\ pc' = "done"
          /\ res' = [op |-> "launch_latest", status |-> "error",
                     version |-> NoVersion]
    /\ UNCHANGED <<mgr_vars, ap, up, scratch, dl_vars, crashed>>

\* release_lock(), before the launcher is started
LaunchRelease ==
    /\ pc = "launch_release"
    /\ ReleaseLock
    /\ pc' = "launch_start"
    /\ UNCHANGED <<wd, listing, cur_ver, retain, ap, res, up, scratch,
                   dl_vars, crashed>>

\* start_process_detached(copied_executable) and the return of true; when
\* CreateProcessW fails the call throws
LaunchStart ==
    /\ pc = "launch_start"
    /\ \/ /\ ap' = [ap EXCEPT !.launched = TRUE]
          /\ res' = [op |-> "launch_latest", status |-> "true",
                     version |-> NoVersion]
       \/ /\ ap' = ap
          /\ res' = [op |-> "launch_latest", status |-> "error",
                     version |-> NoVersion]
    /\ pc' = "done"
    /\ UNCHANGED <<wd, mgr_vars, up, scratch, dl_vars, crashed>>

\* the layouts launch_latest starts from: those of an update(), with any
\* current directory, and no .tmp directory
InitLaunchLayouts ==
    {[n \in DirNames \cup {TmpName} |->
         IF n = TmpName THEN Absent
         ELSE IF n = CurrentName THEN current
         ELSE w[n]] : w \in InitUpdateLayouts, current \in InitCurrent}

InitLaunch ==
    /\ wd \in InitLaunchLayouts
    /\ listing \in Perms(StagedDirs(wd))
    /\ cur_ver \in Versions
    /\ retain = <<>>
    /\ dl_files = [n \in DlNames |-> NoContent]
    /\ verifiers = <<>>
    /\ InitRest

LaunchLatest ==
    \E is_process_latest \in BOOLEAN : LaunchBegin(is_process_latest)

\* manager::release_lock(), called by the owner of the manager
CallReleaseLock ==
    /\ pc = "idle"
    /\ procs[Self].lock
    /\ ReleaseLock
    /\ UNCHANGED <<wd, listing, cur_ver, retain, pc, ap, res, up, scratch,
                   dl_vars, crashed>>

NextLaunch ==
    \/ LaunchLatest
    \/ LaunchCopy
    \/ LaunchRelease
    \/ LaunchStart
    \/ CallReleaseLock
    \/ Ack

SpecLaunch == InitLaunch /\ [][NextLaunch]_vars

(***************************************************************************)
(* SpecApply: apply_latest() called again and again by a launcher, on      *)
(* working directories with several staged versions and retained paths.    *)
(***************************************************************************)
\* what a staged version directory can be: complete, complete with a file
\* of its own under the retained name, or without a sentinel
ApplyKinds == {"valid", "with_notes", "unfinished"}

ApplyDir(v, kind) ==
    [exists |-> TRUE,
     sentinel |-> IF kind = "unfinished" THEN NoFile ELSE SentinelText(v),
     files |-> [f \in PayloadNames |->
                  IF f = "notes" /\ kind # "with_notes" THEN NoFile
                  ELSE <<f, "staged">> \o v]]

\* the working directory with the given current directory and the version
\* directories of S, each of the kind given
ApplyLayout(current, S, kinds) ==
    [n \in {string(v) : v \in ScanVersions} \cup {CurrentName} |->
        IF n = CurrentName THEN current
        ELSE IF \E v \in S : string(v) = n
        THEN LET v == CHOOSE v \in S : string(v) = n
             IN  ApplyDir(v, kinds[v])
        ELSE Absent]

InitApply ==
    /\ \E S \in {T \in SUBSET ScanVersions : Cardinality(T) <= MaxStaged} :
         /\ \E kinds \in [S -> ApplyKinds],
               current \in {InstalledDir(NoFile),
                            InstalledDir(SentinelText(<<0>>))} :
               wd = ApplyLayout(current, S, kinds)
         /\ listing \in Perms({string(v) : v \in S})
    /\ cur_ver = <<0>>
    /\ retain \in {<<>>, <<"notes">>, <<"notes", "app">>}
    /\ dl_files = [n \in DlNames |-> NoContent]
    /\ verifiers = <<>>
    /\ InitRest

NextApply ==
    \/ ApplyLatest
    \/ ApplyKill
    \/ ApplyRetain
    \/ ApplyRemove
    \/ ApplyRename
    \/ Ack

SpecApply == InitApply /\ [][NextApply]_vars

(***************************************************************************)
(* SpecLatest: one get_latest() or one update() of an updater, whose       *)
(* source reports a version and the URL of an asset.                       *)
(***************************************************************************)
\* the text with every period replaced by a letter
Blurred(s) == [i \in 1..Len(s) |-> IF s[i] = "." THEN "x" ELSE s[i]]

\* filenames of the assets of a release: named after a version, with its
\* periods or with letters in their place
AssetNames ==
    {<<"r", "-">> \o string(v) : v \in ScanVersions}
        \cup {<<"r", "-">> \o Blurred(string(v)) : v \in ScanVersions}

\* the settings of the updater that get_latest and check_url read
Settings ==
    [source : BOOLEAN, filename_pattern : BOOLEAN, url_pattern : BOOLEAN,
     fcv : {"unset", "true", "false"}]

\* the call of m_latest_retriever_func threw, or was never made
NoAnswer ==
    [failed |-> TRUE, version |-> NoVersion, base |-> NoBase,
     filename |-> <<>>, name_ok |-> FALSE, url_ok |-> FALSE]

\* what m_latest_retriever_func does: it throws, or it returns a version and
\* the URL of an asset, which the patterns of the updater match or not
SourceAnswers ==
    {NoAnswer} \cup
        [failed : {FALSE}, version : ScanVersions, base : Releases,
         filename : AssetNames, name_ok : BOOLEAN, url_ok : BOOLEAN]

\* the updater has what get_latest needs to call the source
CanResolve(cfg) == cfg.source /\ cfg.filename_pattern /\ cfg.url_pattern

\* a comparison of the resolved version with the current version first
LatestStateCurrentFirst(version, latest_installed, current) ==
    IF VEq(version, current) THEN "up_to_date"
    ELSE IF latest_installed.has /\ VEq(version, latest_installed.version)
    THEN "update_already_installed"
    ELSE IF VLess(version, current) THEN "latest_is_older"
    ELSE "new_version_available"

\* the state of the update_info that get_latest returns
LatestState(version, latest_installed, current) ==
    IF latest_installed.has /\ VEq(version, latest_installed.version)
    THEN "update_already_installed"
    ELSE IF VEq(version, current) THEN "up_to_date"
    ELSE IF VLess(version, current) THEN "latest_is_older"
    ELSE "new_version_available"

\* updater::get_latest: the state it returns, or the reason for which it
\* throws
GetLatestOutcome(cfg, src, w, order, current) ==
    IF ~cfg.source THEN "no_source"
    ELSE IF ~cfg.filename_pattern THEN "no_filename_pattern"
    ELSE IF ~cfg.url_pattern THEN "no_url_pattern"
    ELSE IF src.failed THEN "source_failed"
    ELSE LET check == CheckUrl(cfg.fcv, src.filename, src.version,
                               src.name_ok, src.url_ok)
         IN  IF check # "ok" THEN check
             ELSE LatestState(src.version, latest_available_update(w, order),
                              current)

\* the states of an update_info
LatestStates ==
    {"update_already_installed", "up_to_date", "latest_is_older",
     "new_version_available"}

\* get_latest(), called by the owner of the updater
GetLatestCall(cfg, src) ==
    /\ pc = "idle"
    /\ AcquireLock
    /\ LET st == GetLatestOutcome(cfg, src, wd, listing, cur_ver)
           resolved == CanResolve(cfg) /\ ~src.failed
       IN  /\ up' = IF resolved
                    THEN [NoUp EXCEPT !.version = src.version,
                                      !.name = string(src.version),
                                      !.filename = src.filename,
                                      !.before = wd, !.fcv = cfg.fcv]
                    ELSE [NoUp EXCEPT !.before = wd, !.fcv = cfg.fcv]
           /\ res' = [op |-> "get_latest", status |-> st,
                      version |-> IF resolved THEN src.version ELSE NoVersion]
    /\ pc' = "done"
    /\ UNCHANGED <<wd, listing, cur_ver, retain, ap, scratch, dl_vars, crashed>>

\* how update() ends for a state that is not new_version_available: the
\* switch has a case for up_to_date and for latest_is_older; every other
\* state reaches the default branch, assert(false) and then the exception
\* "unknown state", of which a build without NDEBUG executes the first and a
\* build with NDEBUG the second; the reason for which get_latest threw is
\* passed on
UpdateOutcomes(st) ==
    IF st = "update_already_installed"
    THEN {"assertion_failed", "unknown_state"}
    ELSE {st}

\* update(): get_latest(), then update(version, url) for a new version and
\* an exception for every other state
UpdateCall(cfg, src) ==
    /\ pc = "idle"
    /\ LET st == GetLatestOutcome(cfg, src, wd, listing, cur_ver)
           resolved == CanResolve(cfg) /\ ~src.failed
       IN  IF st = "new_version_available"
           THEN UpdateBegin(src.version, src.base, src.filename, cfg.fcv,
                            src.name_ok, src.url_ok)
           ELSE /\ up' = IF resolved
                         THEN [NoUp EXCEPT !.version = src.version,
                                           !.name = string(src.version),
                                           !.filename = src.filename,
                                           !.before = wd, !.fcv = cfg.fcv]
                         ELSE [NoUp EXCEPT !.before = wd, !.fcv = cfg.fcv]
                /\ \E outcome \in UpdateOutcomes(st) :
                        res' = [op |-> "update", status |-> outcome,
                                version |-> IF resolved THEN src.version
                                            ELSE NoVersion]
                /\ pc' = "done"
                /\ crashed' = NoCrash
                /\ UNCHANGED <<wd, mgr_vars, ap, scratch, dl_vars>>

\* the working directories of an updater: the installation and at most one
\* complete version directory
InitLatest ==
    /\ \E S \in {{}} \cup {{v} : v \in ScanVersions} :
         /\ wd = ApplyLayout(InstalledDir(NoFile), S, [v \in S |-> "valid"])
         /\ listing \in Perms({string(v) : v \in S})
    /\ cur_ver \in {<<c>> : c \in 0..MaxComp}
    /\ retain = <<>>
    /\ dl_files = [n \in AssetNames \cup {SumsName, SigName} |-> NoContent]
    /\ verifiers = <<>>
    /\ InitRest

\* the source is called only by an updater that has every setting it needs
GetLatest ==
    \E cfg \in Settings :
        IF CanResolve(cfg)
        THEN \E src \in SourceAnswers : GetLatestCall(cfg, src)
        ELSE GetLatestCall(cfg, NoAnswer)

UpdateFromSource ==
    \E cfg \in Settings :
        IF CanResolve(cfg)
        THEN \E src \in SourceAnswers : UpdateCall(cfg, src)
        ELSE UpdateCall(cfg, NoAnswer)

NextLatest ==
    \/ GetLatest
    \/ UpdateFromSource
    \/ GetNext
    \/ GetResp
    \/ GetBody
    \/ GetVerify
    \/ UpdClear
    \/ UpdExtract
    \/ UpdContentOp
    \/ UpdRename
    \/ UpdPostOp
    \/ UpdSentinel

SpecLatest == InitLatest /\ [][NextLatest]_vars

(***************************************************************************)
(* SpecValues: the functions on version numbers, version strings and       *)
(* filenames, each applied once to an input.                               *)
(***************************************************************************)
\* the version numbers that are compared: components of either sign, from
\* no component to one more than MaxVerLen, and those of the examples
ComparedVersions ==
    SeqsUpTo((0 - 1)..MaxComp, MaxVerLen + 1)
        \cup {<<1, 2>>, <<1, 2, 0>>, <<1, 2, 1>>, <<1, 1, 9>>}

\* the texts that are parsed, and the prefixes they are parsed with
ParsedTexts == SeqsUpTo({"0", "1", ".", "-", "v"}, MaxText)

ParsedPrefixes == {<<>>, <<"v">>, <<"1">>}

\* the version strings that are looked for in a filename
SoughtVersions ==
    {string(v) : v \in ScanVersions} \cup {<<"1", ".", "2", ".", "3">>}

\* the filenames of the examples
ExampleNames ==
    {<<"1", "2", ".", "2", ".", "3">>,
     <<"1", ".", "2", ".", "3", ".", "4">>,
     <<"r", "e", "l", "e", "a", "s", "e", "-", "1", ".", "2", ".", "3",
       ".", "z", "i", "p">>,
     <<"a", "p", "p", "_", "1", ".", "2", ".", "3">>,
     <<"v", "1", ".", "2", ".", "3", "-", "w", "i", "n", "6", "4">>}

\* the filenames that are searched
SearchedNames ==
    SeqsUpTo({"0", "1", ".", "x"}, MaxText) \cup ExampleNames

\* operator<, operator== and operator> on two version numbers
Compare(lhs, rhs) ==
    /\ pc = "idle"
    /\ res' = [op |-> "compare", status |-> "ok", version |-> lhs,
               rhs |-> rhs, less |-> VLess(lhs, rhs),
               equal |-> VEq(lhs, rhs), greater |-> VGreater(lhs, rhs)]
    /\ pc' = "done"
    /\ UNCHANGED <<wd, mgr_vars, ap, up, scratch, dl_vars, crashed>>

\* version_number::from_string(text, prefix)
Parse(text, prefix) ==
    /\ pc = "idle"
    /\ LET parsed == from_string(text, prefix)
       IN  res' = [op |-> "from_string",
                   status |-> IF parsed = NoVersion THEN "error" ELSE "ok",
                   version |-> parsed, text |-> text, prefix |-> prefix]
    /\ pc' = "done"
    /\ UNCHANGED <<wd, mgr_vars, ap, up, scratch, dl_vars, crashed>>

\* regex_contains(filename, filename_contains_version_pattern(V))
SearchVersion(filename, V) ==
    /\ pc = "idle"
    /\ res' = [op |-> "regex_contains",
               status |-> IF FilenameContainsVersion(filename, V)
                          THEN "ok" ELSE "rejected",
               version |-> from_string(V, <<>>), text |-> V,
               filename |-> filename]
    /\ pc' = "done"
    /\ UNCHANGED <<wd, mgr_vars, ap, up, scratch, dl_vars, crashed>>

InitValues ==
    /\ wd = Layout(Absent, {}, {})
    /\ listing = <<>>
    /\ cur_ver = <<0>>
    /\ retain = <<>>
    /\ dl_files = [n \in DlNames |-> NoContent]
    /\ verifiers = <<>>
    /\ InitRest

CompareVersions == \E lhs \in ComparedVersions, rhs \in ComparedVersions : Compare(lhs, rhs)

ParseVersion == \E text \in ParsedTexts, prefix \in ParsedPrefixes : Parse(text, prefix)

SearchName == \E filename \in SearchedNames, V \in SoughtVersions : SearchVersion(filename, V)

NextValues ==
    \/ CompareVersions
    \/ ParseVersion
    \/ SearchName

SpecValues == InitValues /\ [][NextValues]_vars

(***************************************************************************)
(* SpecManager: a process that constructs a manager and calls prune(), on  *)
(* working directories with a current directory, version directories and   *)
(* a child that is no version.                                             *)
(***************************************************************************)
\* UPDATE_LOCK_FILENAME
UpdateLockName == <<"u", "p", "d", "a", "t", "e", ".", "l", "o", "c", "k">>

\* first component of relative(process, m_working_directory) when the
\* executable of the process is outside of the working directory
ParentName == <<".", ".">>

\* a child of the working directory that holds an executable and is neither
\* a version nor the current directory
ForeignDir ==
    [exists |-> TRUE, sentinel |-> NoFile,
     files |-> [f \in PayloadNames |->
                  IF f = "app" THEN <<f, "foreign">> ELSE NoFile]]

\* the working directory with the given current directory, the given child
\* that is no version, and the version directories of S, those of U without
\* a sentinel
ManagerLayout(current, other, S, U) ==
    [n \in {string(v) : v \in ScanVersions} \cup {CurrentName, OtherName} |->
        IF n = CurrentName THEN current
        ELSE IF n = OtherName THEN other
        ELSE IF \E v \in U : string(v) = n
        THEN UnfinishedDir(CHOOSE v \in U : string(v) = n)
        ELSE IF \E v \in S : string(v) = n
        THEN StagedDir(CHOOSE v \in S : string(v) = n)
        ELSE Absent]

\* the first components that relative(process, m_working_directory) can
\* have: a child that holds an executable, or the way out of the directory
ProcessRoots(w) ==
    {ParentName} \cup {n \in DOMAIN w : w[n].exists /\ w[n].files["app"] # NoFile}

\* an exclusion set without the directory of the current version
PruneExcludedNoCurrentVersion(latest_installed, version, root_directory) ==
    {UpdateLockName, CurrentName, root_directory}
        \cup (IF latest_installed.has
              THEN {string(latest_installed.version)} ELSE {})

\* exclude_directories as prune() fills it
PruneExcluded(latest_installed, version, root_directory) ==
    {UpdateLockName, CurrentName, string(version), root_directory}
        \cup (IF latest_installed.has
              THEN {string(latest_installed.version)} ELSE {})

\* manager::unlink_files: every child whose name is not excluded has its
\* processes killed and is removed with all it contains
unlink_files(w, excluded) ==
    [n \in DOMAIN w |-> IF n \in excluded THEN w[n] ELSE Absent]

\* manager::manager, by a process whose executable is in the current
\* directory or elsewhere
Construct(version, is_process_latest) ==
    /\ pc = "stopped"
    /\ is_process_latest => /\ wd[CurrentName].exists
                            /\ wd[CurrentName].files["app"] # NoFile
    /\ AcquireLock
    /\ cur_ver' = version
    /\ wd' = WriteSentinelForCurrentProcess(wd, is_process_latest, version)
    /\ pc' = "done"
    /\ res' = [op |-> "manager", status |-> "ok", version |-> version,
               is_process_latest |-> is_process_latest, before |-> wd]
    /\ UNCHANGED <<listing, retain, ap, up, scratch, dl_vars, crashed>>

\* manager::prune, by a process whose executable is below the given child
Prune(root_directory) ==
    /\ pc = "idle"
    /\ AcquireLock
    /\ LET latest_installed == latest_available_update(wd, listing)
           excluded == PruneExcluded(latest_installed, cur_ver, root_directory)
       IN  /\ wd' = unlink_files(wd, excluded)
           /\ res' = [op |-> "prune", status |-> "ok", version |-> cur_ver,
                      root_directory |-> root_directory, before |-> wd]
    /\ pc' = "done"
    /\ UNCHANGED <<listing, cur_ver, retain, ap, up, scratch, dl_vars, crashed>>

InitManager ==
    /\ \E S \in {T \in SUBSET ScanVersions : Cardinality(T) <= MaxStaged} :
         /\ \E U \in SUBSET S, other \in {Absent, ForeignDir},
               current \in {InstalledDir(NoFile),
                            InstalledDir(SentinelText(<<0>>))} :
               wd = ManagerLayout(current, other, S, U)
         /\ listing \in Perms({string(v) : v \in S})
    /\ cur_ver = <<0>>
    /\ retain = <<>>
    /\ dl_files = [n \in DlNames |-> NoContent]
    /\ verifiers = <<>>
    /\ lockfile = FALSE
    /\ handles = {}
    /\ procs = [m \in Managers |-> NoProc]
    /\ pc = "stopped"
    /\ ap = NoAp
    /\ up = NoUp
    /\ scratch = Absent
    /\ dl_base = NoBase
    /\ dl_cancel = FALSE
    /\ g = NoG
    /\ res = NoRes
    /\ crashed = NoCrash

\* a process starts and constructs its manager
NewManager ==
    \E version \in ScanVersions, is_process_latest \in BOOLEAN :
        Construct(version, is_process_latest)

CallPrune == \E root_directory \in ProcessRoots(wd) : Prune(root_directory)

NextManager ==
    \/ NewManager
    \/ CallPrune
    \/ Ack

SpecManager == InitManager /\ [][NextManager]_vars

(***************************************************************************)
(* SpecText: the texts the program reads, each parsed once: the content of *)
(* a sentinel file, a sha256sums manifest, the document of a release.      *)
(***************************************************************************)
\* largest number of lines of a sentinel file
MaxLines == 2

\* the line of a sentinel with a key that decode does not know
UnknownKeyLine == <<"k", "=", "h">>

\* the lines a sentinel file is made of: a version, an unknown key, nothing
SentinelLines ==
    {SentinelText(v) : v \in Versions} \cup {UnknownKeyLine, <<>>}

\* what separates the lines of a text file: LF, or CR and LF
LineEnds == {<<LF>>, <<CR, LF>>}

\* the bytes of a file with the given lines, separated by the line end
\* and, when terminated, with a line end after the last line
RECURSIVE FileContent(_, _, _)
FileContent(lines, sep, terminated) ==
    IF Len(lines) = 0 THEN <<>>
    ELSE IF Len(lines) = 1
    THEN Head(lines) \o (IF terminated THEN sep ELSE <<>>)
    ELSE Head(lines) \o sep \o FileContent(Tail(lines), sep, terminated)

\* sentinel::read() of a file with the given content, and version()
ReadSentinelFile(lines, sep, terminated) ==
    /\ pc = "idle"
    /\ LET content == FileContent(lines, sep, terminated)
           version == Decode(content)
       IN  res' = [op |-> "sentinel_read",
                   status |-> IF version = NoVersion THEN "false" ELSE "ok",
                   version |-> version, lines |-> lines, sep |-> sep,
                   terminated |-> terminated]
    /\ pc' = "done"
    /\ UNCHANGED <<wd, mgr_vars, ap, up, scratch, dl_vars, crashed>>

\* largest number of assets of a release
MaxAssets == 2

\* names and download URLs of the assets of a release; an asset may have
\* the empty text as its URL
ReleaseAssets == [name : {"a", "b"}, url : {"u1", "u2", ""}]

\* the tag names of a release
ReleaseTags == {<<"v", "1">>, <<"v", "1", ".", "0">>, <<"1">>}

\* the sets of names that a release_filename_pattern matches
FilenamePatterns == {{"a"}, {"a", "b"}}

\* a loop that stops at the first asset whose name matches
RECURSIVE ExtractUrlFirstMatch(_, _, _)
ExtractUrlFirstMatch(assets, pattern, url) ==
    IF Len(assets) = 0 THEN url
    ELSE IF Head(assets).name \in pattern THEN Head(assets).url
    ELSE ExtractUrlFirstMatch(Tail(assets), pattern, url)

\* the loop of github_api_latest_extractor::operator() over the assets
RECURSIVE ExtractUrl(_, _, _)
ExtractUrl(assets, pattern, url) ==
    IF Len(assets) = 0 THEN url
    ELSE IF Head(assets).name \in pattern
    THEN ExtractUrl(Tail(assets), pattern, Head(assets).url)
    ELSE ExtractUrl(Tail(assets), pattern, url)

\* github_api_latest_extractor::operator() on the document of a release
ExtractLatest(tag, assets, pattern) ==
    /\ pc = "idle"
    /\ LET version == from_string(tag, <<"v">>)
           url == ExtractUrl(assets, pattern, "")
       IN  res' = [op |-> "extract_latest",
                   status |-> IF version = NoVersion THEN "bad_tag"
                              ELSE IF url = "" THEN "no_matching_asset"
                              ELSE "ok",
                   version |-> version,
                   url |-> IF version = NoVersion THEN "" ELSE url,
                   assets |-> assets, pattern |-> pattern]
    /\ pc' = "done"
    /\ UNCHANGED <<wd, mgr_vars, ap, up, scratch, dl_vars, crashed>>

\* the lines of a sha256sums manifest: a hash, a space, an asterisk and a
\* path; and a line with a hash alone
SumsLines ==
    {<<"h", " ", "*", "p">>, <<"g", " ", "*", "d", "/", "q">>, <<"x">>}

\* std::filesystem::path::preferred_separator
PreferredSeparator == "\\"

\* the loop of parse_sha256sums from position i on: state, the two string
\* streams, and the result so far
RECURSIVE ParseSums(_, _, _, _, _, _)
ParseSums(data, i, state, oss_hash, oss_path, result) ==
    IF i > Len(data) THEN result
    ELSE LET c == data[i]
         IN  IF c \in {CR, LF} /\ state # 2
             THEN ParseSums(data, i + 1, 0, oss_hash, oss_path, result)
             ELSE IF state = 0
             THEN IF c = " "
                  THEN ParseSums(data, i + 1, 1, oss_hash, oss_path, result)
                  ELSE ParseSums(data, i + 1, 0, Append(oss_hash, c),
                                 oss_path, result)
             ELSE IF state = 1
             THEN ParseSums(data, i + 1, IF c = "*" THEN 2 ELSE 1,
                            oss_hash, oss_path, result)
             ELSE IF c \in {CR, LF}
             THEN ParseSums(data, i + 1, 0, <<>>, <<>>,
                            Append(result, <<oss_hash, oss_path>>))
             ELSE ParseSums(data, i + 1, 2, oss_hash,
                            Append(oss_path,
                                   IF c = "/" THEN PreferredSeparator ELSE c),
                            result)

\* parse_sha256sums(data)
parse_sha256sums(data) == ParseSums(data, 1, 0, <<>>, <<>>, <<>>)

\* parse_sha256sums on the content of a manifest
ParseManifest(lines, sep, terminated) ==
    /\ pc = "idle"
    /\ res' = [op |-> "parse_sha256sums", status |-> "ok",
               version |-> NoVersion,
               sums |-> parse_sha256sums(FileContent(lines, sep, terminated)),
               lines |-> lines, sep |-> sep, terminated |-> terminated]
    /\ pc' = "done"
    /\ UNCHANGED <<wd, mgr_vars, ap, up, scratch, dl_vars, crashed>>

InitText ==
    /\ wd = Layout(Absent, {}, {})
    /\ listing = <<>>
    /\ cur_ver = <<0>>
    /\ retain = <<>>
    /\ dl_files = [n \in DlNames |-> NoContent]
    /\ verifiers = <<>>
    /\ InitRest

ReadSentinel ==
    \E lines \in SeqsUpTo(SentinelLines, MaxLines) \ {<<>>},
       sep \in LineEnds, terminated \in BOOLEAN :
        ReadSentinelFile(lines, sep, terminated)

ExtractRelease ==
    \E tag \in ReleaseTags, assets \in SeqsUpTo(ReleaseAssets, MaxAssets),
       pattern \in FilenamePatterns :
        ExtractLatest(tag, assets, pattern)

ParseSha256sums ==
    \E lines \in SeqsUpTo(SumsLines, MaxLines) \ {<<>>},
       sep \in LineEnds, terminated \in BOOLEAN :
        ParseManifest(lines, sep, terminated)

NextText ==
    \/ ReadSentinel
    \/ ParseSha256sums
    \/ ExtractRelease

SpecText == InitText /\ [][NextText]_vars

(***************************************************************************)
(* SpecMain: the main process, whose manager and updater are used after    *)
(* launch_latest(): by latest_available_update() and update(version, url). *)
(***************************************************************************)
InitMain ==
    /\ \E w \in InitUpdateLayouts :
          wd = [n \in DirNames \cup {TmpName} |->
                   IF n = TmpName THEN Absent ELSE w[n]]
    /\ listing \in Perms(StagedDirs(wd))
    /\ cur_ver = <<0>>
    /\ retain = <<>>
    /\ dl_files = [n \in DlNames |-> NoContent]
    /\ verifiers = <<>>
    /\ InitRest

\* update(version, url) for the asset of one release, with settings that
\* check_url accepts
UpdateChecked ==
    \E version \in {<<c>> : c \in 0..MaxComp} :
        UpdateBegin(version, "r1", <<"r", "-", "1">>, "false", TRUE, TRUE)

NextMain ==
    \/ LaunchLatest
    \/ LaunchCopy
    \/ LaunchRelease
    \/ LaunchStart
    \/ LatestAvailableUpdate
    \/ UpdateChecked
    \/ GetNext
    \/ GetResp
    \/ GetBody
    \/ GetVerify
    \/ UpdClear
    \/ UpdExtract
    \/ UpdContentOp
    \/ UpdRename
    \/ UpdPostOp
    \/ UpdSentinel
    \/ Ack

SpecMain == InitMain /\ [][NextMain]_vars

(***************************************************************************)
(* SpecLaunched: the main process after its launch_latest() has returned   *)
(* true; it goes on calling its manager and its updater.                   *)
(***************************************************************************)
\* the state in which launch_latest() returned true and the caller took the
\* result: there was a newer version, the launcher was copied to .tmp, the
\* lock was released and its file deleted
InitLaunched ==
    /\ \E w \in InitUpdateLayouts :
          wd = [n \in DirNames \cup {TmpName} |->
                   IF n = TmpName THEN LauncherCopy ELSE w[n]]
    /\ listing \in Perms(StagedDirs(wd))
    /\ cur_ver = <<0>>
    /\ \E is_process_latest \in BOOLEAN :
          HaveNewerVersion(latest_available_update(wd, listing),
                           SentinelRead(wd[CurrentName]),
                           is_process_latest, cur_ver)
    /\ retain = <<>>
    /\ dl_files = [n \in DlNames |-> NoContent]
    /\ verifiers = <<>>
    /\ lockfile = FALSE
    /\ handles = {}
    /\ procs = [m \in Managers |->
                  IF m = Self THEN [NoProc EXCEPT !.last = "released"]
                  ELSE NoProc]
    /\ pc = "idle"
    /\ ap = NoAp
    /\ up = NoUp
    /\ scratch = Absent
    /\ dl_base = NoBase
    /\ dl_cancel = FALSE
    /\ g = NoG
    /\ res = NoRes
    /\ crashed = NoCrash

SpecLaunched == InitLaunched /\ [][NextMain]_vars

(***************************************************************************)
(* SpecAgain: one updater, and so one downloader, that performs update()   *)
(* after update(), for the releases of several versions.                   *)
(***************************************************************************)
InitAgain ==
    /\ wd = Layout(InstalledDir(NoFile), {}, {})
    /\ listing = <<>>
    /\ cur_ver = <<0>>
    /\ retain = <<>>
    /\ dl_files = [n \in DlNames |-> NoContent]
    /\ verifiers \in UpdaterVerifiers
    /\ InitRest

\* update(version, url) for an asset of a release, with settings that
\* check_url accepts
UpdateAgain ==
    \E version \in {<<c>> : c \in 0..MaxComp}, base \in Releases,
       filename \in PkgNames :
        UpdateBegin(version, base, filename, "false", TRUE, TRUE)

NextAgain ==
    \/ UpdateAgain
    \/ GetNext
    \/ GetResp
    \/ GetBody
    \/ GetVerify
    \/ UpdClear
    \/ UpdExtract
    \/ UpdContentOp
    \/ UpdRename
    \/ UpdPostOp
    \/ UpdSentinel
    \/ Ack

SpecAgain == InitAgain /\ [][NextAgain]_vars

(***************************************************************************)
(* Properties of the lock file (SpecLock).                                 *)
(***************************************************************************)
\* a manager holds the lock when its lock_file has the handle on the file
Holds(m) == m \in handles

\* C1: at any time at most one manager, of whatever process, holds the lock
\* of the working directory: while one holds it, the construction of another
\* manager (or acquire_lock on a manager without the lock) fails and leaves
\* that manager without the lock.
C1_AtMostOneHolder ==
    /\ Cardinality({m \in Managers : Holds(m)}) <= 1
    /\ \A m \in Managers :
          /\ (procs[m].lock /\ procs[m].at = "idle") => handles = {m}
          /\ procs[m].last = "ok" => (procs[m].lock /\ procs[m].at # "delete"
                                          => Holds(m))
          /\ procs[m].last = "failed" =>
                /\ ~Holds(m)
                /\ ~procs[m].lock

\* C1, its case: one manager holds the lock and the attempt of another one
\* has failed
C1_Witness ==
    \E m, n \in Managers :
        /\ m # n
        /\ Holds(m)
        /\ procs[m].lock
        /\ procs[m].at = "idle"
        /\ procs[n].at = "idle"
        /\ procs[n].last = "failed"

(***************************************************************************)
(* Properties of the downloader (SpecDl).                                  *)
(***************************************************************************)
\* get() has returned a file to its caller
GetReturned == pc = "done" /\ res.op = "get" /\ res.status = "ok"

\* C2: whenever get() returns a file, every verifier registered on the
\* downloader was invoked for that call, in the order of registration, and
\* passed for the returned file, whether the files were downloaded by this
\* call or stored by an earlier one.
C2_ReturnedFileVerified ==
    GetReturned =>
        /\ g.passed = verifiers
        /\ \A i \in 1..Len(verifiers) :
              VerifierPasses(verifiers[i], g.path, dl_files)
        /\ dl_files[g.path] # NoContent

\* C2, its case: a get() that downloaded nothing returns a file stored by an
\* earlier call, with both kinds of verifier registered
C2_Witness ==
    /\ GetReturned
    /\ g.fetched = {}
    /\ \A kind \in VerifierKinds : \E i \in 1..Len(verifiers) :
          verifiers[i] = kind

(***************************************************************************)
(* Properties of update(version, url) (SpecUpdate).                        *)
(***************************************************************************)
\* update() is being executed, or has just ended
InUpdate ==
    \/ pc \in {"get_next", "get_resp", "get_body", "get_verify", "upd_clear",
               "upd_extract", "upd_cops", "upd_rename", "upd_pops",
               "upd_sentinel"}
    \/ pc = "done" /\ res.op = "update"

\* update() has ended with the given outcome
UpdateEnded(status) ==
    pc = "done" /\ res.op = "update" /\ res.status = status

Removing(old, new) ==
    \/ new = Absent
    \/ /\ new.exists
       /\ new.sentinel \in {old.sentinel, NoFile}
       /\ \A f \in PayloadNames : new.files[f] \in {old.files[f], NoFile}

\* C4 as stated: before the rename of the temporary directory no entry of
\* the working directory is created, changed or removed.
C4_Original == InUpdate /\ ~up.renamed => wd = up.before

\* C4, amended: before the rename the only entry of the working directory
\* that update() changes is a <working_dir>/<version> that existed before
\* the call, which it removes once the download has been verified; every
\* other entry is as it was before the call, also when update() fails.
C4_OnlyStaleDirectoryRemoved ==
    InUpdate /\ ~up.renamed =>
        /\ \A n \in DirNames : n # up.name => wd[n] = up.before[n]
        /\ \/ wd[up.name] = up.before[up.name]
           \/ /\ up.before[up.name].exists
              /\ Removing(up.before[up.name], wd[up.name])
        /\ pc \in {"get_next", "get_resp", "get_body", "get_verify"} =>
              wd = up.before

\* C4, its case: an update() that failed at the extraction, after it removed
\* the directory of that version that existed before the call
C4_Witness ==
    /\ UpdateEnded("extract")
    /\ up.before[up.name].exists
    /\ ~wd[up.name].exists

\* C5: after a successful update() the directory <working_dir>/<version>
\* exists and holds a sentinel that reads as the resolved version.
C5_SuccessfulUpdateHasSentinel ==
    UpdateEnded("ok") =>
        /\ wd[string(res.version)].exists
        /\ SentinelRead(wd[string(res.version)]) # NoVersion
        /\ VEq(SentinelRead(wd[string(res.version)]), res.version)
        /\ res.version = up.version

\* C5, its case: a successful update() that ran a post-update operation and
\* replaced a directory of that version
C5_Witness ==
    /\ UpdateEnded("ok")
    /\ up.pops > 0
    /\ up.before[up.name].exists

\* C6 as stated: when a post-update operation fails, no directory of that
\* version remains in the working directory.
C6_Original == UpdateEnded("post_op") => ~wd[up.name].exists

\* C6, amended: when a post-update operation fails, update() fails and the
\* directory <working_dir>/<version> it has committed stays in the working
\* directory, with the extracted content and without the sentinel of
\* update().
C6_FailedPostOperationLeavesDirectory ==
    UpdateEnded("post_op") =>
        /\ up.renamed
        /\ wd[up.name] = ArchiveDir(dl_files[up.filename])
        /\ SentinelRead(wd[up.name]) = NoVersion
        /\ ~scratch.exists

\* C6, its case: a post-update operation failed
C6_Witness ==
    /\ UpdateEnded("post_op")
    /\ wd[up.name].exists

(***************************************************************************)
(* Properties of apply_latest (Spec).                                      *)
(***************************************************************************)
\* apply_latest has chosen an update and is replacing the latest directory,
\* or has just ended doing so
InApply ==
    \/ pc \in {"apply_kill", "apply_retain", "apply_remove", "apply_rename"}
    \/ pc = "done" /\ res.op = "apply_latest" /\ ap.update.has

\* apply_latest has ended with the given outcome
ApplyEnded(status) ==
    pc = "done" /\ res.op = "apply_latest" /\ res.status = status

\* the directory new exists with the sentinel and every file of old
Keeps(old, new) ==
    /\ old.exists
    /\ new.exists
    /\ new.sentinel = old.sentinel
    /\ \A f \in PayloadNames : old.files[f] # NoFile =>
                                    new.files[f] = old.files[f]

\* C7: when apply_latest() returns version v, the current directory holds
\* the contents of the former <working_dir>/v with a sentinel that reads v,
\* and <working_dir>/v no longer exists.
C7_AppliedUpdateIsCurrent ==
    ApplyEnded("ok") =>
        /\ res.version = ap.update.version
        /\ ap.update.name = string(res.version)
        /\ Keeps(ap.upd_before, wd[CurrentName])
        /\ SentinelRead(wd[CurrentName]) # NoVersion
        /\ VEq(SentinelRead(wd[CurrentName]), res.version)
        /\ ~wd[string(res.version)].exists

\* C7, its case: apply_latest() returned a version after it replaced an
\* installation that had a sentinel
C7_Witness ==
    /\ ApplyEnded("ok")
    /\ ap.cur_before.exists
    /\ SentinelRead(ap.cur_before) # NoVersion

\* of the update directory and the current directory, one is present and
\* intact: the update as it was, or the old installation as it was, or the
\* update as the new installation
EitherIntact(update, upd_before, cur_before) ==
    \/ Keeps(upd_before, wd[update.name])
    \/ cur_before.exists /\ wd[CurrentName] = cur_before
    \/ Keeps(upd_before, wd[CurrentName])

\* C8: an apply_latest() that fails or is interrupted at any step never
\* leaves the working directory without both the current directory and the
\* update directory: at every point one of the two is present and intact.
C8_CurrentOrUpdateIntact ==
    /\ InApply => EitherIntact(ap.update, ap.upd_before, ap.cur_before)
    /\ pc = "stopped" /\ crashed.update.has =>
          EitherIntact(crashed.update, crashed.upd_before, crashed.cur_before)

\* C8, its case: the process was killed while apply_latest was removing the
\* entries of the current directory
C8_Witness ==
    /\ pc = "stopped"
    /\ crashed.at = "apply_remove"
    /\ crashed.cur_before.exists
    /\ wd[CurrentName] # crashed.cur_before

\* C9: when the process is killed after apply_latest() removed the current
\* directory and before it renamed the update directory, then in the next
\* run latest_available_update() still reports that update, and the next
\* apply_latest() applies that update and does not return absent: when it
\* returns, the update is installed as the current directory.
C9_InterruptedApplyIsResumed ==
    /\ (pc \in {"stopped", "idle"} /\ crashed.at = "apply_rename") =>
          /\ crashed.update.has
          /\ ~wd[CurrentName].exists
          /\ latest_available_update(wd, listing) = crashed.update
    /\ ap.recovering.has =>
          /\ ap.update = ap.recovering
          /\ ~ApplyEnded("absent")
    /\ (ap.recovering.has /\ ApplyEnded("ok")) =>
          /\ res.version = ap.recovering.version
          /\ wd[CurrentName].exists
          /\ VEq(SentinelRead(wd[CurrentName]), ap.recovering.version)
          /\ ~wd[ap.recovering.name].exists

\* C9, its case: the apply_latest() of the run after such an interruption
\* has returned the version
C9_Witness ==
    /\ ap.recovering.has
    /\ ApplyEnded("ok")

\* C10 as stated: apply_latest() replaces the current directory only with an
\* update strictly newer than the version of its sentinel, or when the
\* current directory is absent.
C10_Original ==
    ApplyEnded("ok") =>
        \/ ~ap.cur_before.exists
        \/ /\ SentinelRead(ap.cur_before) # NoVersion
           /\ VLess(SentinelRead(ap.cur_before), res.version)

\* C10, amended: apply_latest() replaces the current directory only with an
\* update strictly newer than the version of its sentinel, or when the
\* current directory is absent or has no readable sentinel; otherwise it
\* returns absent, so that a current directory with a readable sentinel is
\* never replaced by an equal or older version.
C10_OnlyNewerReplacesSentinel ==
    /\ InApply =>
          \/ SentinelRead(ap.cur_before) = NoVersion
          \/ VLess(SentinelRead(ap.cur_before), ap.update.version)
    /\ ApplyEnded("absent") =>
          /\ wd[CurrentName] \in {ap.cur_before, EmptyDir}
          /\ LET update == latest_available_update(wd, listing)
                 latest_version == SentinelRead(wd[CurrentName])
             IN  \/ ~update.has
                 \/ /\ latest_version # NoVersion
                    /\ ~VLess(latest_version, update.version)

\* C10, its case: apply_latest() replaced a current directory that existed
\* without a readable sentinel
C10_Witness ==
    /\ ApplyEnded("ok")
    /\ ap.cur_before.exists
    /\ SentinelRead(ap.cur_before) = NoVersion

(***************************************************************************)
(* Properties of latest_available_update (SpecScan).                       *)
(***************************************************************************)
\* latest_available_update() has returned
Scanned == pc = "done" /\ res.op = "latest_available_update"

\* the version a child of the working directory is named after
NameVersion(n) == from_string(n, <<>>)

\* the children that are valid version directories: the name is a version,
\* the sentinel can be read, and it holds the version of the name
ValidDirs(w) ==
    {n \in DOMAIN w \ {CurrentName} :
        /\ w[n].exists
        /\ NameVersion(n) # NoVersion
        /\ w[n].sentinel # NoFile
        /\ Decode(w[n].sentinel) # NoVersion
        /\ VEq(NameVersion(n), Decode(w[n].sentinel))}

\* the valid version directory that is greater than every other one
Greatest(w) ==
    {n \in ValidDirs(w) :
        \A m \in ValidDirs(w) \ {n} : VLess(NameVersion(m), NameVersion(n))}

\* two distinct valid version directories have equal versions
HasEqualVersions(w) ==
    \E a, b \in ValidDirs(w) : a # b /\ VEq(NameVersion(a), NameVersion(b))

\* C11 as stated: latest_available_update() returns the unique greatest
\* valid version directory among the children of the working directory, or
\* absent when there is none.
C11_Original ==
    Scanned =>
        IF Greatest(wd) # {}
        THEN ap.update.has /\ ap.update.name \in Greatest(wd)
        ELSE ~ap.update.has

\* C11, amended: when no two valid version directories have equal versions,
\* latest_available_update() returns the greatest valid version directory
\* among the children of the working directory (the current directory and
\* the children that are no version excluded), with its version, or absent
\* when there is no valid version directory.
C11_GreatestValidDirectory ==
    (Scanned /\ ~HasEqualVersions(wd)) =>
        IF ValidDirs(wd) = {}
        THEN ap.update = NoUpdate
        ELSE /\ ap.update.has
             /\ ap.update.name \in Greatest(wd)
             /\ ap.update.name \notin {CurrentName, OtherName}
             /\ ap.update.version = NameVersion(ap.update.name)

\* C11, its case: of several valid version directories the one returned was
\* not the first one enumerated, and an invalid directory is named after a
\* version that is not less
C11_Witness ==
    /\ Scanned
    /\ ~HasEqualVersions(wd)
    /\ ap.update.has
    /\ Cardinality(ValidDirs(wd)) >= 2
    /\ \E i \in 1..Len(listing) :
          /\ listing[i] \in ValidDirs(wd)
          /\ \E j \in (i + 1)..Len(listing) : listing[j] = ap.update.name
    /\ \E n \in DOMAIN wd \ ValidDirs(wd) :
          /\ wd[n].exists
          /\ NameVersion(n) # NoVersion
          /\ ~VLess(NameVersion(n), ap.update.version)

\* C12: latest_available_update() never returns a directory that has no
\* sentinel, whose sentinel cannot be parsed, or whose sentinel holds
\* another version than the one the name of the directory parses to.
C12_ReturnedDirectoryHasMatchingSentinel ==
    (Scanned /\ ap.update.has) =>
        LET dir == wd[ap.update.name]
        IN  /\ dir.exists
            /\ dir.sentinel # NoFile
            /\ Decode(dir.sentinel) # NoVersion
            /\ NameVersion(ap.update.name) # NoVersion
            /\ VEq(Decode(dir.sentinel), NameVersion(ap.update.name))
            /\ VEq(ap.update.version, NameVersion(ap.update.name))

\* C12, its case: a directory is returned although a directory with the
\* sentinel of another version, and one without a readable sentinel, are
\* named after greater versions
C12_Witness ==
    /\ Scanned
    /\ ap.update.has
    /\ \E n \in DOMAIN wd :
          /\ NameVersion(n) # NoVersion
          /\ VLess(ap.update.version, NameVersion(n))
          /\ SentinelRead(wd[n]) # NoVersion
          /\ ~VEq(SentinelRead(wd[n]), NameVersion(n))
    /\ \E n \in DOMAIN wd :
          /\ NameVersion(n) # NoVersion
          /\ VLess(ap.update.version, NameVersion(n))
          /\ wd[n].exists
          /\ SentinelRead(wd[n]) = NoVersion

\* C13 as stated: whenever the working directory contains two distinct
\* valid version directories whose versions compare equal,
\* latest_available_update() returns absent, whatever other version
\* directories exist and in whatever order the directories are enumerated.
C13_Original ==
    (Scanned /\ HasEqualVersions(wd)) => ~ap.update.has

(***************************************************************************)
(* Properties of cancel (SpecDl).                                          *)
(***************************************************************************)
\* a get() called directly has ended
GetEnded == pc = "done" /\ res.op = "get"

InGet ==
    \/ pc \in {"get_next", "get_resp", "get_body", "get_verify"}
    \/ GetEnded /\ g.caller = "get"

\* C15: within one get() the additional files are fetched before the
\* primary file, verifiers are invoked only after every fetch has completed
\* and in the order of their registration, and no verifier is invoked after
\* a fetch or an earlier verifier has failed.
C15_FetchesThenVerifiersInOrder ==
    InGet =>
        /\ (pc \in {"get_resp", "get_body"} /\ g.cur = g.path) =>
              /\ g.aux = <<>>
              /\ \A a \in AdditionalFiles(verifiers) : dl_files[a] # NoContent
        /\ (pc = "get_verify" \/ g.passed # <<>>) =>
              /\ g.aux = <<>>
              /\ g.primary
              /\ \A a \in AdditionalFiles(verifiers) \cup {g.path} :
                    dl_files[a] # NoContent
        /\ g.passed \o g.vers = verifiers
        /\ (GetEnded /\ res.status \in {"transport", "cancelled"}) =>
              g.passed = <<>>
        /\ (GetEnded /\ res.status = "verification_failed") =>
              /\ Len(g.passed) < Len(verifiers)
              /\ ~VerifierPasses(verifiers[Len(g.passed) + 1], g.path,
                                 dl_files)
        /\ (GetEnded /\ res.status = "ok") => g.passed = verifiers

\* C15, its case: the first verifier has passed, the second one has failed
\* and has ended the get(), all files fetched by this call
C15_Witness ==
    /\ GetEnded
    /\ res.status = "verification_failed"
    /\ Len(g.passed) = 1
    /\ AdditionalFiles(verifiers) \cup {g.path} \subseteq g.fetched

\* C16: within one downloader a file that is stored is not fetched again: a
\* get() downloads only files that are not stored, and what is stored
\* under a filename stays as it is, so that a second get() for the filename
\* returns the file stored before.
C16_StoredFileNotFetchedAgain ==
    [][/\ \A n \in DlNames : dl_files[n] # NoContent =>
                                  dl_files'[n] = dl_files[n]
       /\ (GetResp \/ GetBody) => dl_files[g.cur] = NoContent
       /\ (GetVerify /\ pc' = "done" /\ res'.status = "ok") =>
             dl_files'[g.path] # NoContent]_vars

\* C16, its case: a get() has returned a file that it did not fetch
C16_Witness ==
    /\ GetEnded
    /\ res.status = "ok"
    /\ g.path \notin g.fetched

(***************************************************************************)
(* Properties of launch_latest (SpecLaunch).                               *)
(***************************************************************************)
\* launch_latest has ended with the given outcome
LaunchEnded(status) ==
    pc = "done" /\ res.op = "launch_latest" /\ res.status = status

\* the manager has no lock: no lock_file object, no handle on the file
LockFree == ~procs[Self].lock /\ Self \notin handles

\* C17: when launch_latest() finds a newer version it releases the lock of
\* the working directory before it starts the launcher, and when it
\* returns true the manager no longer holds the lock.
C17_LockReleasedBeforeLaunch ==
    /\ pc = "launch_start" => (LockFree /\ ~lockfile)
    /\ ap.launched => (LockFree /\ ~lockfile)
    /\ LaunchEnded("true") => (ap.launched /\ LockFree /\ ~lockfile)

\* C17, its case: launch_latest() has started the launcher and returned
\* true
C17_Witness ==
    /\ LaunchEnded("true")
    /\ ap.had_lock
    /\ wd[TmpName] = LauncherCopy

\* C18: when launch_latest() returns false because there is no newer
\* version, the manager still holds the lock of the working directory.
C18_LockHeldAfterFalse ==
    LaunchEnded("false") =>
        /\ procs[Self].lock
        /\ handles = {Self}
        /\ lockfile
        /\ ~ap.launched

\* C18, its case: launch_latest() has returned false with an update in the
\* working directory that is not newer than the current version
C18_Witness ==
    /\ LaunchEnded("false")
    /\ ap.had_lock
    /\ ap.update.has

\* the condition of C19 on the working directory, the current version of
\* the manager and the place of the executable of the process
NewerVersionExists ==
    LET update == latest_available_update(wd, listing)
        latest == wd[CurrentName]
    IN  \/ update.has /\ VLess(cur_ver, update.version)
        \/ /\ latest.exists
           /\ latest.sentinel # NoFile
           /\ Decode(latest.sentinel) # NoVersion
           /\ VLess(cur_ver, Decode(latest.sentinel))
           /\ ~ap.is_process_latest

AcquiredNext(m) ==
    /\ procs'[m].lock
    /\ procs'[m].last = "ok"
    /\ handles' = {m}
    /\ lockfile'

\* C20: when the manager that holds the lock is destroyed or calls
\* release_lock(), its handle is closed and the lock file is deleted (unless
\* another manager has opened it in between); a manager constructed on the
\* same working directory while no manager holds the lock acquires it,
\* whether the lock file is there or not.
C20_ReleasedLockCanBeAcquired ==
    [][\A m \in Managers :
          /\ LockClose(m) => m \notin handles'
          /\ LockDelete(m) =>
                /\ ~procs'[m].lock
                /\ procs'[m].last = "released"
                /\ handles = {} => ~lockfile'
          /\ (LockOpenExisting(m) /\ handles = {}) =>
                IF lockfile THEN AcquiredNext(m)
                ELSE procs'[m].at = "create_new"
          /\ (LockCreateNew(m) /\ ~lockfile) => AcquiredNext(m)]_vars

\* C20, its case: one manager has released the lock, which deleted the lock
\* file, and another manager has created the file and holds the lock
C20_Witness ==
    \E a, b \in Managers :
        /\ a # b
        /\ procs[a].last = "released"
        /\ procs[a].at = "idle"
        /\ procs[b].last = "ok"
        /\ procs[b].at = "idle"
        /\ procs[b].lock
        /\ handles = {b}
        /\ lockfile


(***************************************************************************)
(* Properties of repeated apply_latest and of retained paths (SpecApply).  *)
(***************************************************************************)
\* the directory holds a release that apply_latest moved there: no initial
\* layout has staged files in the current directory
InstalledByApply(dir) ==
    /\ dir.exists
    /\ dir.files["app"] # NoFile
    /\ dir.files["app"][2] = "staged"

\* C21: when apply_latest() is called again after a successful
\* apply_latest() and no newer update has been staged in between, the call
\* returns absent and leaves the current directory as the first call left it.
C21_SecondApplyReturnsAbsent ==
    InstalledByApply(ap.cur_before) =>
        /\ ApplyEnded("absent")
        /\ wd[CurrentName] = ap.cur_before

\* C21, its case: apply_latest() has returned from a call made after an
\* update was applied, while a complete directory of an older version is
\* still staged
C21_Witness ==
    /\ ApplyEnded("absent")
    /\ InstalledByApply(ap.cur_before)
    /\ \E n \in ValidDirs(wd) :
          VLess(NameVersion(n), SentinelRead(wd[CurrentName]))

\* C22: for every retained path that exists in the current directory before
\* apply_latest(): after a successful apply_latest() the path exists in the
\* current directory, with its former contents when the update did not
\* contain it and with the contents of the update when it did.
C22_RetainedPathsKept ==
    ApplyEnded("ok") =>
        \A i \in 1..Len(retain) :
            LET p == retain[i]
            IN  ap.cur_before.files[p] # NoFile =>
                   wd[CurrentName].files[p] =
                       IF ap.upd_before.files[p] = NoFile
                       THEN ap.cur_before.files[p]
                       ELSE ap.upd_before.files[p]

\* C22, its case: an update was applied while a retained path was in the
\* current directory and the update had a file of its own under that name
C22_Witness ==
    /\ ApplyEnded("ok")
    /\ \E i \in 1..Len(retain) :
          /\ ap.cur_before.files[retain[i]] # NoFile
          /\ ap.upd_before.files[retain[i]] # NoFile
          /\ ap.upd_before.files[retain[i]] # ap.cur_before.files[retain[i]]


(***************************************************************************)
(* Properties of get_latest() and update() (SpecLatest).                   *)
(***************************************************************************)
\* get_latest() has returned or thrown
GetLatestEnded == pc = "done" /\ res.op = "get_latest"

\* the filename holds the text of the version, character by character
NameHasVersion(filename, version) ==
    FindStr(filename, string(version)) # npos

\* C23 as stated: with filename_contains_version=true, when the source
\* reports version V and the filename of the asset does not contain V,
\* update() fails and that call installs no version directory.
C23_Original ==
    (/\ up.fcv = "true"
     /\ up.version # NoVersion
     /\ ~NameHasVersion(up.filename, up.version)) =>
        /\ ~UpdateEnded("ok")
        /\ wd = up.before

\* the errors of a missing or inconsistent setting
Misconfigured ==
    {"misconfigured", "no_source", "no_filename_pattern", "no_url_pattern"}

\* C24 as stated: when filename_contains_version was never set, get_latest()
\* and update() fail with Misconfigured and install nothing.
C24_Original ==
    up.fcv = "unset" =>
        /\ pc = "done"
        /\ res.status \in Misconfigured
        /\ wd = up.before

\* C24, amended: when filename_contains_version was never set, get_latest()
\* and update() fail and install nothing; the failure is Misconfigured
\* unless the source itself failed, which is found out first.
C24_UnsetSettingFails ==
    up.fcv = "unset" =>
        /\ pc = "done"
        /\ res.status \in Misconfigured \cup {"source_failed"}
        /\ wd = up.before
        /\ (res.status = "misconfigured" => up.version # NoVersion)

\* C24, its case: update() has failed for the unset setting, after the
\* source reported a version and an asset
C24_Witness ==
    /\ pc = "done"
    /\ res.op = "update"
    /\ up.fcv = "unset"
    /\ res.status = "misconfigured"
    /\ up.version # NoVersion

\* C26: get_latest() returns UpdateAlreadyInstalled if the latest available
\* update equals the resolved version; otherwise UpToDate if the resolved
\* version equals the current version; otherwise LatestIsOlder if the
\* resolved version is less than the current version; otherwise
\* NewVersionAvailable.
C26_StateOfLatest ==
    (GetLatestEnded /\ res.status \in LatestStates) =>
        LET latest_installed == latest_available_update(wd, listing)
            installed == /\ latest_installed.has
                         /\ VEq(res.version, latest_installed.version)
            same == VEq(res.version, cur_ver)
            older == VLess(res.version, cur_ver)
        IN  /\ res.status = "update_already_installed" <=> installed
            /\ res.status = "up_to_date" <=> (~installed /\ same)
            /\ res.status = "latest_is_older" <=>
                   (~installed /\ ~same /\ older)
            /\ res.status = "new_version_available" <=>
                   (~installed /\ ~same /\ ~older)

\* C26, its case: get_latest() returned UpdateAlreadyInstalled for a version
\* that is the current version too
C26_Witness ==
    /\ GetLatestEnded
    /\ res.status = "update_already_installed"
    /\ VEq(res.version, cur_ver)


(***************************************************************************)
(* Properties of the functions on versions and filenames (SpecValues).     *)
(***************************************************************************)
\* the version at the end of a position where the filename holds V character
\* by character
LiteralAt(filename, V, b) ==
    /\ b + Len(V) - 1 <= Len(filename)
    /\ \A j \in 1..Len(V) : filename[b + j - 1] = V[j]

\* the rule of the claim: V stands in the filename where what is left of it
\* is the start of the text, a character that is neither a digit nor a
\* period, a non-digit followed by a period, or a non-digit that begins the
\* text; and the same on the right, mirrored
LiterallyContained(filename, V) ==
    LET n == Len(filename)
        NonDigit(i) == i \in 1..n /\ ~IsDigit(filename[i])
        Period(i) == i \in 1..n /\ filename[i] = "."
        Left(b) == \/ b = 1
                   \/ b = 2 /\ NonDigit(1)
                   \/ NonDigit(b - 1) /\ ~Period(b - 1)
                   \/ Period(b - 1) /\ NonDigit(b - 2)
        Right(e) == \/ e = n + 1
                    \/ e = n /\ NonDigit(n)
                    \/ NonDigit(e) /\ ~Period(e)
                    \/ Period(e) /\ NonDigit(e + 1)
    IN  \E b \in 1..(n + 1) :
            LiteralAt(filename, V, b) /\ Left(b) /\ Right(b + Len(V))

\* C25 as stated: the check accepts a filename for the version string V
\* exactly when the filename contains V literally at a position with such a
\* left and right neighbourhood.
C25_Original ==
    (pc = "done" /\ res.op = "regex_contains") =>
        (res.status = "ok" <=> LiterallyContained(res.filename, res.text))

\* the version with zeros appended up to n components
Padded(v, n) == [i \in 1..n |-> IF i <= Len(v) THEN v[i] ELSE 0]

\* lexicographic order on sequences of the same length
LexLess(x, y) ==
    \E i \in 1..Len(x) : x[i] < y[i] /\ \A j \in 1..(i - 1) : x[j] = y[j]

Max(a, b) == IF a > b THEN a ELSE b

\* C29: for all versions a and b, comparing a with b gives the result of
\* comparing lexicographically their components after the shorter one was
\* padded with zeros, so that exactly one of a<b, a==b, a>b holds.
C29_ComparisonIsPaddedLexicographic ==
    (pc = "done" /\ res.op = "compare") =>
        LET n == Max(Len(res.version), Len(res.rhs))
            a == Padded(res.version, n)
            b == Padded(res.rhs, n)
        IN  /\ res.less = LexLess(a, b)
            /\ res.equal = (a = b)
            /\ res.greater = LexLess(b, a)
            /\ \/ res.less /\ ~res.equal /\ ~res.greater
               \/ ~res.less /\ res.equal /\ ~res.greater
               \/ ~res.less /\ ~res.equal /\ res.greater

\* C29, its case: 1.2 was compared with 1.2.1, which is longer and greater
C29_Witness ==
    /\ pc = "done"
    /\ res.op = "compare"
    /\ res.version = <<1, 2>>
    /\ res.rhs = <<1, 2, 1>>
    /\ res.less

\* the pieces of a text between its periods
RECURSIVE Pieces(_)
Pieces(text) ==
    LET k == FindChar(text, ".", 1)
    IN  IF k = npos THEN <<text>>
        ELSE <<SubSeq(text, 1, k - 1)>>
                 \o Pieces(SubSeq(text, k + 1, Len(text)))

\* the text begins with the prefix and what follows consists of runs of
\* digits, none of them empty, with periods between them
WellFormed(text, prefix) ==
    /\ Len(prefix) <= Len(text)
    /\ SubSeq(text, 1, Len(prefix)) = prefix
    /\ LET pieces == Pieces(SubSeq(text, Len(prefix) + 1, Len(text)))
       IN  \A i \in 1..Len(pieces) :
               /\ Len(pieces[i]) > 0
               /\ \A j \in 1..Len(pieces[i]) : IsDigit(pieces[i][j])

\* C30 as stated: from_string accepts a text only if the prefix occurs at
\* position 0 and the rest, split on '.', consists of non-empty runs of
\* digits; every other input is rejected with an error.
C30_Original ==
    (pc = "done" /\ res.op = "from_string" /\ res.status = "ok") =>
        WellFormed(res.text, res.prefix)

(***************************************************************************)
(* Properties of prune() and of the constructor (SpecManager).             *)
(***************************************************************************)
Pruned == pc = "done" /\ res.op = "prune"

\* the children that the rule of prune() keeps: the current directory, the
\* directory named after the current version, the directory of the latest
\* available update, and the child that holds the executable of the process
KeptByPrune ==
    LET latest_installed == latest_available_update(res.before, listing)
    IN  {CurrentName, string(res.version), res.root_directory}
            \cup (IF latest_installed.has THEN {latest_installed.name} ELSE {})

\* C27: when prune() has returned, the lock file is in place, each of the
\* current directory, the directory named after the current version, the
\* directory of the latest available update and the child that holds the
\* executable of the process is as it was, and no other child exists
C27_PruneKeepsFiveRemovesRest ==
    Pruned =>
        /\ lockfile
        /\ \A n \in DOMAIN wd :
              IF n \in KeptByPrune THEN wd[n] = res.before[n]
              ELSE ~wd[n].exists

\* C27, its case: prune() has returned, the current directory, a directory
\* of the latest available update and another directory named after the
\* current version were kept, and a child that is no version was removed
C27_Witness ==
    /\ Pruned
    /\ res.root_directory = ParentName
    /\ wd[CurrentName].exists
    /\ wd[string(res.version)].exists
    /\ \E n \in DOMAIN wd :
          /\ n # string(res.version)
          /\ latest_available_update(res.before, listing).has
          /\ latest_available_update(res.before, listing).name = n
          /\ wd[n].exists
    /\ res.before[OtherName].exists /\ ~wd[OtherName].exists

\* C27, its other case: the process runs from a child that is no version,
\* which was kept, and a version directory was removed
C27_WitnessProcess ==
    /\ Pruned
    /\ res.root_directory = OtherName
    /\ wd[OtherName].exists
    /\ \E n \in DOMAIN wd : res.before[n].exists /\ ~wd[n].exists

Constructed == pc = "done" /\ res.op = "manager"

C28_WitnessMissing ==
    /\ Constructed
    /\ res.is_process_latest
    /\ res.before[CurrentName].sentinel = NoFile

(***************************************************************************)
(* Properties of the texts the program reads (SpecText).                   *)
(***************************************************************************)
SentinelWasRead == pc = "done" /\ res.op = "sentinel_read"

\* the lines that give the version v
VersionLines(lines, v) == {i \in 1..Len(lines) : lines[i] = SentinelText(v)}

\* the lines that are neither a version nor an unknown key
StrayLines(lines) ==
    {i \in 1..Len(lines) :
        /\ lines[i] # UnknownKeyLine
        /\ \A v \in Versions : lines[i] # SentinelText(v)}

\* C31: reading a sentinel file made of key=value lines, separated by LF or
\* by CR LF, one of which gives a version, succeeds and yields that
\* version, whatever unknown keys the other lines have
C31_Original ==
    SentinelWasRead =>
        \A v \in Versions :
            /\ VersionLines(res.lines, v) # {}
            /\ \A u \in Versions \ {v} : VersionLines(res.lines, u) = {}
            /\ StrayLines(res.lines) = {}
            => res.status = "ok" /\ res.version = v

Extracted == pc = "done" /\ res.op = "extract_latest"

\* the positions of the assets whose name the pattern matches
Matching(assets, pattern) == {i \in 1..Len(assets) : assets[i].name \in pattern}

FirstOf(S) == CHOOSE i \in S : \A j \in S : i <= j

LastOf(S) == CHOOSE i \in S : \A j \in S : j <= i

\* C32 as stated: when the source returns, the URL is that of the first
\* asset, in the order of the document, whose name matches
C32_Original ==
    Extracted /\ res.status = "ok" =>
        LET S == Matching(res.assets, res.pattern)
        IN  S # {} /\ res.url = res.assets[FirstOf(S)].url

\* C32: when the source returns, the URL is that of the last asset, in the
\* order of the document, whose name matches; the source fails when the tag
\* is no version, when no name matches, and when that last URL is empty
C32_LastMatchingAsset ==
    Extracted =>
        LET S == Matching(res.assets, res.pattern)
        IN  IF res.version = NoVersion THEN res.status = "bad_tag"
            ELSE IF S = {} \/ res.assets[LastOf(S)].url = ""
            THEN res.status = "no_matching_asset"
            ELSE res.status = "ok" /\ res.url = res.assets[LastOf(S)].url

\* C32, its case: the source has returned for a release with two assets
\* whose names match and whose URLs differ
C32_Witness ==
    /\ Extracted
    /\ res.status = "ok"
    /\ Cardinality(Matching(res.assets, res.pattern)) = 2
    /\ res.assets[1].url # res.assets[2].url

ManifestParsed == pc = "done" /\ res.op = "parse_sha256sums"

\* a line of a manifest is well formed: a hash, a space, an asterisk, a path
WellFormedSum(line) ==
    \E k \in 2..(Len(line) - 2) :
        /\ line[k] = " " /\ line[k + 1] = "*"
        /\ \A j \in 1..(k - 1) : line[j] \notin {" ", "*"}

\* the entry of a well-formed line: its hash, and its path with the
\* separators of the platform
SumEntry(line) ==
    LET k == CHOOSE k \in 1..Len(line) : line[k] = " "
        path == SubSeq(line, k + 2, Len(line))
    IN  <<SubSeq(line, 1, k - 1),
          [j \in 1..Len(path) |->
              IF path[j] = "/" THEN PreferredSeparator ELSE path[j]]>>

\* C33: parsing a manifest of well-formed lines gives the entry of every
\* line, in order, also of a last line that ends with the file and not
\* with a line end
C33_Original ==
    ManifestParsed /\ (\A i \in 1..Len(res.lines) : WellFormedSum(res.lines[i]))
        => res.sums = [i \in 1..Len(res.lines) |-> SumEntry(res.lines[i])]

(***************************************************************************)
(* Properties of the lock in the main process (SpecMain).                  *)
(***************************************************************************)
\* C34: every step that creates, renames or deletes an entry of the working
\* directory is taken while the manager of the process holds the lock: it
\* holds it before the step, or the step begins by acquiring it
C34_Original == [][wd' # wd => procs[Self].lock \/ procs'[Self].lock]_vars

\* C35: after launch_latest() has returned true, no operation that the main
\* process calls makes its manager hold the lock, the caller never calling
\* acquire_lock()
C35_Original == LockFree

(***************************************************************************)
(* Properties of the sentinel as the mark of a complete update             *)
(* (SpecUpdate).                                                           *)
(***************************************************************************)
\* the child of the given name is what latest_available_update() and
\* apply_latest() take for a valid update
TakenForValid(w, n) ==
    /\ from_string(n, <<>>) # NoVersion
    /\ SentinelRead(w[n]) # NoVersion
    /\ VEq(from_string(n, <<>>), SentinelRead(w[n]))

\* C36: while update() has not completed every step, and after it has
\* failed, the directory of its version is not taken for a valid update,
\* unless it is the untouched directory of an earlier update()
C36_Original ==
    InUpdate /\ ~UpdateEnded("ok") /\ TakenForValid(wd, up.name)
        => wd[up.name] = up.before[up.name]

(***************************************************************************)
(* Properties of the files of a downloader (SpecAgain, SpecDl).            *)
(***************************************************************************)
\* C37: when an update() verifies its download, the manifest and the
\* signature it verifies with are those of the release it downloads from,
\* not files stored for the release of an earlier update()
C37_Original ==
    pc = "get_verify" /\ g.caller = "update" =>
        \A n \in AdditionalFiles(verifiers) : dl_files[n].origin = dl_base

\* C38: a file enters m_downloaded_files only in the step that completes
\* its download, with cancel not set, after which get() goes on; a step in
\* which a download fails or is cancelled stores nothing
C38_FailedDownloadNotStored ==
    [][/\ dl_files' # dl_files =>
            /\ pc = "get_body" /\ pc' = "get_next" /\ ~dl_cancel
            /\ dl_files' = [dl_files EXCEPT ![g.cur] = g.got]
       /\ pc \in {"get_resp", "get_body"} /\ pc' = "done" =>
            dl_files' = dl_files]_vars

\* C38, its case: a get() was cancelled after the response of a file had
\* begun, and the file is not among the stored ones, while another is
C38_Witness ==
    /\ pc = "done"
    /\ res.op = "get"
    /\ res.status = "cancelled"
    /\ g.got # NoContent
    /\ dl_files[g.cur] = NoContent
    /\ \E n \in DlNames : dl_files[n] # NoContent

\* C39: the argument-less update() performs the update or fails with an
\* error specific to the state that get_latest() returned; it does not end
\* in the internal 'unknown state' failure nor in a failed assertion
C39_Original ==
    pc = "done" /\ res.op = "update" =>
        res.status \notin {"unknown_state", "assertion_failed"}

\* C40: a launch_latest() call that returns false and an apply_latest()
\* call that returns absent leave every directory of the working directory
\* as it was
C40_Original ==
    [][/\ pc = "idle"
       /\ pc' = "done"
       /\ \/ res'.op = "launch_latest" /\ res'.status = "false"
          \/ res'.op = "apply_latest" /\ res'.status = "absent"
       => wd' = wd]_vars

=============================================================================
